---- MODULE Spec2Model ----
(***************************************************************************)
(* MyFS (src/implementation.c): a file system kept inside one region of    *)
(* memory.  The model keeps the region as the code lays it out on an LP64  *)
(* build: the handle, the inode table, the memory blocks.  A block is      *)
(* kept as its header bytes, the bytes between the header and the place    *)
(* the code uses as data field, and the bytes from there to the block's    *)
(* end; a data field runs past its block into the next one, as in the code.*)
(* Bytes are numbers 0..255; names, paths and payloads are byte sequences. *)
(*                                                                         *)
(* An access outside the region, through NULL or through an offset that    *)
(* names no block is recorded in fault and ends the run.  A read of heap   *)
(* bytes the code never wrote (past a malloc'd copy that has no            *)
(* terminator, or after strndup's early stop) is a choice between the      *)
(* outcomes such bytes can give; an outcome that needed other than benign  *)
(* bytes is marked ub.                                                     *)
(***************************************************************************)
EXTENDS Integers, Sequences, FiniteSets, TLC

VARIABLES
    inodes,   \* the inode table, by index
    blocks,   \* the memory blocks, by index
    fault,    \* an invalid access has happened; nothing runs after it
    last,     \* the last call: its arguments, what it gave, what it found
    live,     \* paths a mknod or mkdir made that no call has removed or renamed
    handle,   \* the FSHandle at the start of the region
    mount,    \* where the host mapped the region, and its size
    env_lock, \* the thread that holds the host's mutex, or none
    pc        \* per thread of the host: the handler it runs and where it stands

vars == <<inodes, blocks, fault, last, live, handle, mount, env_lock, pc>>

\* ------------------------------------------------------------ bounds
\* Size in bytes of the region the host hands over.
FsSize == 17096
\* Size in bytes of a region that holds one inode more.
OwnSize == 21928

\* ------------------------------------------------------------ layout
ST_SZ_FSHANDLE == 48
ST_SZ_INODE == 304
ST_SZ_MEMHEAD == 24
FS_BLOCK_SZ_KB == 4
BYTES_IN_KB == 1024
NAME_MAXLEN == 256
BLOCKS_TO_INODES == 1
SLASH == 47
COLON == 58
NEWLINE == 10

DATAFIELD_SZ_B == FS_BLOCK_SZ_KB * BYTES_IN_KB - ST_SZ_MEMHEAD
MEMBLOCK_SZ_B == ST_SZ_MEMHEAD + DATAFIELD_SZ_B
FS_START_OFFSET == ST_SZ_FSHANDLE
\* MIN_FS_SZ_B: the macro MEMBLOCK_SZ_B has no parentheses, so 2 * MEMBLOCK_SZ_B
\* is 2 * sizeof(MemHead) + DATAFIELD_SZ_B.
MIN_FS_SZ_B == ST_SZ_FSHANDLE + ST_SZ_INODE + (2 * ST_SZ_MEMHEAD + DATAFIELD_SZ_B)
\* memblock + ST_SZ_MEMHEAD on a MemHead* advances ST_SZ_MEMHEAD elements.
DataFieldOff == ST_SZ_MEMHEAD * ST_SZ_MEMHEAD
\* Bytes of a data field that lie inside its own block.
BodySz == MEMBLOCK_SZ_B - DataFieldOff

NULLP == 0 - 1
WILD == 0 - 1

Min(a, b) == IF a <= b THEN a ELSE b

\* F applied to v: names a value that is computed once and used often.
Let(v, F(_)) == F(v)

\* fs_init's sizing loop: the count of inodes (and of blocks) for a region.
RECURSIVE SizingLoop(_, _)
SizingLoop(n, fs_size) ==
    IF n * BLOCKS_TO_INODES * DATAFIELD_SZ_B + n * ST_SZ_INODE < fs_size
    THEN SizingLoop(n + 1, fs_size)
    ELSE n

\* The counts for the region the host mounted; those for FsSize are worked
\* out once.
FsInodes == SizingLoop(0, FsSize - FS_START_OFFSET)
NumInodes ==
    IF mount.size = FsSize THEN FsInodes
    ELSE SizingLoop(0, mount.size - FS_START_OFFSET)
NumBlocks == NumInodes * BLOCKS_TO_INODES
MemSegOff == FS_START_OFFSET + ST_SZ_INODE * NumInodes

InodeOff(i) == FS_START_OFFSET + ST_SZ_INODE * i
BlkOff(k) == MemSegOff + MEMBLOCK_SZ_B * k

\* ptr_from_offset for an offset that should name an inode / a block:
\* the index, or WILD when the offset names none.
InodeIdx(off) ==
    IF off >= FS_START_OFFSET /\ off < MemSegOff
       /\ (off - FS_START_OFFSET) % ST_SZ_INODE = 0
    THEN (off - FS_START_OFFSET) \div ST_SZ_INODE ELSE WILD
BlkIdx(off) ==
    IF off >= MemSegOff /\ off < BlkOff(NumBlocks)
       /\ (off - MemSegOff) % MEMBLOCK_SZ_B = 0
    THEN (off - MemSegOff) \div MEMBLOCK_SZ_B ELSE WILD

\* The host maps the region in whole pages: the bytes between the region's
\* end and the end of its last page are memory, but not the region's.
PAGE_SZ == 4096
PageEnd == ((mount.size + PAGE_SZ - 1) \div PAGE_SZ) * PAGE_SZ

\* [off, off+len) is memory / reaches past the region's end.
InRegion(st, off, len) == off >= 0 /\ off + len <= PageEnd
Past(off, len) == off + len > mount.size

\* ------------------------------------------------------------ bytes
Zeros(n) == [i \in 1..n |-> 0]
Rep(b, n) == [i \in 1..n |-> b]

\* s without its trailing zero bytes (a zeroed tail is not stored).
RECURSIVE LastNonZero(_, _, _)
LastNonZero(s, lo, hi) ==
    IF lo > hi THEN 0
    ELSE IF lo = hi THEN (IF s[lo] # 0 THEN lo ELSE 0)
    ELSE LET mid == (lo + hi) \div 2
             r == LastNonZero(s, mid + 1, hi)
         IN  IF r # 0 THEN r ELSE LastNonZero(s, lo, mid)
Trim(s) == SubSeq(s, 1, LastNonZero(s, 1, Len(s)))

\* The first n bytes of s taken as zero-extended.
Take(s, n) == IF n <= Len(s) THEN SubSeq(s, 1, n) ELSE s \o Zeros(n - Len(s))

\* memcpy of new over the start of old.
Overlay(old, new) ==
    IF Len(new) >= Len(old) THEN new
    ELSE new \o SubSeq(old, Len(new) + 1, Len(old))

\* 8-byte little-endian field of a number / the number in such a field
\* (WILD when it is not below 2^31).
Enc8(n) == << n % 256, (n \div 256) % 256, (n \div 65536) % 256,
              (n \div 16777216) % 256, 0, 0, 0, 0 >>
Dec8(s) ==
    IF s[5] = 0 /\ s[6] = 0 /\ s[7] = 0 /\ s[8] = 0 /\ s[4] < 128
    THEN s[1] + 256 * s[2] + 65536 * s[3] + 16777216 * s[4]
    ELSE WILD

\* Position of the first occurrence of pat in s at or after from; 0 if none.
MatchAt(s, pat, i) == \A j \in 1..Len(pat) : s[i + j - 1] = pat[j]
RECURSIVE FirstMatch(_, _, _, _)
FirstMatch(s, pat, lo, hi) ==
    IF lo > hi THEN 0
    ELSE IF lo = hi THEN (IF MatchAt(s, pat, lo) THEN lo ELSE 0)
    ELSE LET mid == (lo + hi) \div 2
             l == FirstMatch(s, pat, lo, mid)
         IN  IF l # 0 THEN l ELSE FirstMatch(s, pat, mid + 1, hi)
FindSub(s, pat, from) == FirstMatch(s, pat, from, Len(s) - Len(pat) + 1)

\* The C string at the start of s: its bytes before the first zero byte.
CStr(s) ==
    LET z == FindSub(s, <<0>>, 1)
    IN  IF z = 0 THEN s ELSE SubSeq(s, 1, z - 1)

IsDigit(b) == b >= 48 /\ b <= 57

\* snprintf("%lu"): the decimal digits of n.
RECURSIVE DecStr(_)
DecStr(n) == IF n < 10 THEN <<48 + n>> ELSE DecStr(n \div 10) \o <<48 + (n % 10)>>

\* Value of a sequence of digits (WILD when longer than nine digits).
RECURSIVE DigitsVal(_)
DigitsVal(d) ==
    IF Len(d) = 0 THEN 0
    ELSE 10 * DigitsVal(SubSeq(d, 1, Len(d) - 1)) + (d[Len(d)] - 48)

\* ------------------------------------------------------------ memory blocks
\* A state of the region: st.ino the inode table, st.blk the blocks,
\* st.fault whether an invalid memory access has happened.
ZeroBlock == [hdr |-> Zeros(ST_SZ_MEMHEAD), gap |-> <<>>, body |-> <<>>]
ZeroInode == [name |-> <<>>, is_dir |-> 0, subdirs |-> 0, file_size_b |-> 0,
              last_acc |-> "null", last_mod |-> "null", offset_firstblk |-> 0]

Flt(st) == [st EXCEPT !.fault = TRUE]
\* An access past the region's end went through.
Mark(st, b) == IF b THEN [st EXCEPT !.over = TRUE] ELSE st

HdrNotFree(b) == SubSeq(b.hdr, 1, 8)
HdrDataSize(b) == Dec8(SubSeq(b.hdr, 9, 16))
HdrNext(b) == Dec8(SubSeq(b.hdr, 17, 24))

memblock_isfree(b) == HdrNotFree(b) = Zeros(8)

\* The first free block: [k |-> its index or NULLP, fault, over |-> a header
\* was read outside memory, past the region].
memblock_nextfree(st) ==
    LET free == {k \in 0..(NumBlocks - 1) : memblock_isfree(st.blk[k])}
        first == IF free = {} THEN NULLP
                 ELSE CHOOSE k \in free : \A j \in free : k <= j
        scanned == IF first = NULLP THEN 0..(NumBlocks - 1) ELSE 0..first
    IN  [k |-> first,
         fault |-> \E k \in scanned : ~InRegion(st, BlkOff(k), ST_SZ_MEMHEAD),
         over |-> \E k \in scanned : Past(BlkOff(k), ST_SZ_MEMHEAD)]

\* offset_from_ptr(fs, memblock_nextfree(fs)): NULL gives an offset that
\* names nothing.
NextFreeOffset(st) ==
    LET nf == memblock_nextfree(st)
    IN  IF nf.k = NULLP THEN WILD ELSE BlkOff(nf.k)

\* The first sz bytes of block k's data field.
FieldRead(blk, k, sz) ==
    LET p1 == Take(blk[k].body, Min(sz, BodySz))
        p2 == IF sz > BodySz
              THEN SubSeq(blk[k + 1].hdr, 1, Min(sz - BodySz, ST_SZ_MEMHEAD))
              ELSE <<>>
        p3 == IF sz > BodySz + ST_SZ_MEMHEAD
              THEN Take(blk[k + 1].gap, sz - BodySz - ST_SZ_MEMHEAD)
              ELSE <<>>
    IN  p1 \o p2 \o p3

\* memcpy(data field of block k, data, Len(data)).
FieldWrite(st, k, data) ==
    LET n == Len(data)
        b1 == [st.blk EXCEPT ![k].body =
                  Trim(Overlay(@, SubSeq(data, 1, Min(n, BodySz))))]
        b2 == IF n > BodySz
              THEN [b1 EXCEPT ![k + 1].hdr =
                      Overlay(@, SubSeq(data, BodySz + 1,
                                        Min(n, BodySz + ST_SZ_MEMHEAD)))]
              ELSE b1
        b3 == IF n > BodySz + ST_SZ_MEMHEAD
              THEN [b2 EXCEPT ![k + 1].gap =
                      Trim(Overlay(@, SubSeq(data, BodySz + ST_SZ_MEMHEAD + 1, n)))]
              ELSE b2
    IN  IF st.fault \/ n = 0 THEN st
        ELSE IF k = WILD \/ ~InRegion(st, BlkOff(k) + DataFieldOff, n) THEN Flt(st)
        ELSE Mark([st EXCEPT !.blk = b3], Past(BlkOff(k) + DataFieldOff, n))

\* Stores into the header of block k.
HdrWrite(st, k, from, bytes) ==
    IF st.fault THEN st
    ELSE IF k = WILD \/ ~InRegion(st, BlkOff(k), ST_SZ_MEMHEAD) THEN Flt(st)
    ELSE Mark([st EXCEPT !.blk[k].hdr =
                  [j \in 1..ST_SZ_MEMHEAD |->
                      IF j >= from /\ j < from + Len(bytes) THEN bytes[j - from + 1]
                      ELSE @[j]]],
              Past(BlkOff(k), ST_SZ_MEMHEAD))
\* *(int*)(&memblock->not_free) = 1 stores four bytes.
SetNotFree(st, k) == HdrWrite(st, k, 1, <<1, 0, 0, 0>>)
SetDataSize(st, k, n) == HdrWrite(st, k, 9, Enc8(n))
SetNextBlk(st, k, off) == HdrWrite(st, k, 17, Enc8(off))

\* memblock_data_get: the data of the chain that starts at block k, copied
\* into a buffer of bufsz bytes.  [data, fault, over].
RECURSIVE memblock_data_get(_, _, _, _, _, _)
memblock_data_get(st, k, acc, bufsz, fuel, ov) ==
    IF k = WILD \/ ~InRegion(st, BlkOff(k), ST_SZ_MEMHEAD)
    THEN [data |-> acc, fault |-> TRUE, over |-> ov]
    ELSE LET sz == HdrDataSize(st.blk[k])
             nx == HdrNext(st.blk[k])
             ov1 == ov \/ Past(BlkOff(k), ST_SZ_MEMHEAD)
             ov2 == ov1 \/ Past(BlkOff(k) + DataFieldOff, sz)
         IN  IF sz = 0 THEN [data |-> acc, fault |-> FALSE, over |-> ov1]
             ELSE IF sz = WILD \/ sz > DATAFIELD_SZ_B
                     \/ ~InRegion(st, BlkOff(k) + DataFieldOff, sz)
                     \/ Len(acc) + sz > bufsz
             THEN [data |-> acc, fault |-> TRUE, over |-> ov1]
             ELSE LET acc2 == acc \o FieldRead(st.blk, k, sz)
                  IN  IF nx = 0 THEN [data |-> acc2, fault |-> FALSE, over |-> ov2]
                      ELSE IF fuel = 0 THEN [data |-> acc2, fault |-> TRUE, over |-> ov2]
                      ELSE memblock_data_get(st, BlkIdx(nx), acc2, bufsz, fuel - 1, ov2)

\* inode_lasttimes_set keeps the address of its local tspec in the inode.
inode_lasttimes_set(ino, set_modified) ==
    [ino EXCEPT !.last_acc = "dangling",
                !.last_mod = IF set_modified THEN "dangling" ELSE @]

inode_isdir(ino) == ino.is_dir # 0
inode_isfree(ino) == ino.offset_firstblk = 0

\* The first free inode, or NULLP.
inode_nextfree(st) ==
    LET free == {i \in 0..(NumInodes - 1) : inode_isfree(st.ino[i])}
    IN  IF free = {} THEN NULLP ELSE CHOOSE i \in free : \A j \in free : i <= j

\* inode_data_get into a buffer of bufsz bytes: [data, fault, st], st with
\* the access time set.
inode_data_get(st, i, bufsz) ==
    Let([st EXCEPT !.ino[i] = inode_lasttimes_set(@, FALSE)], LAMBDA st2 :
    Let(memblock_data_get(st2, BlkIdx(st2.ino[i].offset_firstblk),
                          <<>>, bufsz, NumBlocks, FALSE), LAMBDA got :
        [data |-> got.data, fault |-> got.fault, st |-> Mark(st2, got.over)]))

\* The do-while of inode_data_remove: zero each block of the chain.
RECURSIVE ChainZero(_, _)
ChainZero(st, k) ==
    IF st.fault THEN st
    ELSE IF k = WILD \/ ~InRegion(st, BlkOff(k), MEMBLOCK_SZ_B) THEN Flt(st)
    ELSE LET nx == HdrNext(st.blk[k])
             st2 == Mark([st EXCEPT !.blk[k] = ZeroBlock], Past(BlkOff(k), MEMBLOCK_SZ_B))
         IN  IF nx = 0 THEN st2 ELSE ChainZero(st2, BlkIdx(nx))

inode_data_remove(st, i, newblock) ==
    Let(ChainZero(st, BlkIdx(st.ino[i].offset_firstblk)), LAMBDA st2 :
    Let(memblock_nextfree(st2), LAMBDA nf :
        IF st2.fault THEN st2
        ELSE IF newblock /\ nf.fault THEN Flt(st2)
        ELSE [Mark(st2, newblock /\ nf.over) EXCEPT !.ino[i] =
                 [inode_lasttimes_set(@, TRUE) EXCEPT
                     !.file_size_b = 0,
                     !.offset_firstblk = IF newblock THEN NextFreeOffset(st2) ELSE @]]))

\* The while loop of inode_data_set for data longer than one data field.
RECURSIVE SetLoop(_, _, _, _)
SetLoop(st, k, rest, prev) ==
    IF st.fault \/ Len(rest) = 0 THEN st
    ELSE IF k = NULLP THEN Flt(st)
    ELSE LET n == Min(Len(rest), DATAFIELD_SZ_B)
         IN  Let(SetDataSize(SetNotFree(FieldWrite(st, k, SubSeq(rest, 1, n)), k), k, n),
                 LAMBDA s2 :
             Let(SetNextBlk(IF prev = NULLP THEN s2 ELSE SetNextBlk(s2, prev, BlkOff(k)),
                            k, 0), LAMBDA s4 :
             Let(memblock_nextfree(s4), LAMBDA nf :
                 IF s4.fault THEN s4
                 ELSE IF nf.fault THEN Flt(s4)
                 ELSE SetLoop(Mark(s4, nf.over), nf.k,
                              SubSeq(rest, n + 1, Len(rest)), k))))

inode_data_set(st, i, data) ==
    IF st.fault THEN st
    ELSE
    Let(IF st.ino[i].file_size_b # 0 \/ st.ino[i].offset_firstblk = 0
        THEN inode_data_remove(st, i, TRUE) ELSE st, LAMBDA s1 :
    Let(BlkIdx(s1.ino[i].offset_firstblk), LAMBDA k :
    Let(Len(data), LAMBDA sz :
        IF s1.fault THEN s1
        ELSE IF k = WILD THEN Flt(s1)
        ELSE
        Let(IF sz <= DATAFIELD_SZ_B
            THEN SetNextBlk(SetDataSize(SetNotFree(FieldWrite(s1, k, data), k), k, sz), k, 0)
            ELSE SetLoop(s1, k, data, NULLP), LAMBDA s2 :
            IF s2.fault THEN s2
            ELSE [s2 EXCEPT !.ino[i] =
                     [inode_lasttimes_set(@, TRUE) EXCEPT !.file_size_b = sz]]))))

\* inode_data_append: the buffer holds file_size_b + Len(append_data) bytes.
\* append_data is taken as a C string (str_len).
inode_data_append(st, i, append_data) ==
    IF st.fault THEN st
    ELSE
    Let(CStr(append_data), LAMBDA app :
    Let(inode_data_get(st, i, st.ino[i].file_size_b + Len(app)), LAMBDA got :
        IF got.fault THEN Flt(got.st)
        ELSE inode_data_set(got.st, i, got.data \o app)))

\* ------------------------------------------------------------ names
inode_name_charvalid(ch) ==
    ~(ch < 32 \/ ch = 44 \/ ch = 47 \/ ch = 58 \/ ch > 122)

inode_name_isvalid(name) ==
    /\ Len(name) > 0
    /\ Len(name) <= NAME_MAXLEN
    /\ \A j \in 1..Len(name) : inode_name_charvalid(name[j])

\* strcpy(inode->name, name): the terminator of a name of NAME_MAXLEN bytes
\* lands on the first byte of is_dir.
inode_name_set(ino, name) ==
    [ino EXCEPT !.name = name,
                !.is_dir = IF Len(name) = NAME_MAXLEN THEN 0 ELSE @]

\* The string read at inode->name: a name of NAME_MAXLEN bytes runs on into
\* is_dir.
InodeName(ino) ==
    IF Len(ino.name) = NAME_MAXLEN /\ ino.is_dir # 0
    THEN ino.name \o <<ino.is_dir>> ELSE ino.name

\* "name:offset\n", the line of a directory table.
LookupLine(name, off) == name \o <<COLON>> \o DecStr(off) \o <<NEWLINE>>

\* strsep: the tokens of s between separators.
RECURSIVE Tokens(_)
Tokens(s) ==
    LET q == FindSub(s, <<SLASH>>, 1)
    IN  IF q = 0 THEN <<s>>
        ELSE <<SubSeq(s, 1, q - 1)>> \o Tokens(SubSeq(s, q + 1, Len(s)))

RECURSIVE JoinParts(_, _)
JoinParts(toks, n) ==
    IF n = 0 THEN <<>> ELSE JoinParts(toks, n - 1) \o <<SLASH>> \o toks[n]

\* The split of a path into the parent's path and the last name, as mknod,
\* mkdir and child_remove do it: the first byte is skipped unread.
SplitPath(path) ==
    LET toks == Tokens(Tail(path))
        par == JoinParts(toks, Len(toks) - 1)
    IN  [par |-> IF par = <<>> THEN <<SLASH>> ELSE par, name |-> toks[Len(toks)]]

\* ------------------------------------------------------------ lookup
\* A lookup ends with an inode index or NULLP, or with a fault; ub marks an
\* end reached only through bytes the code never wrote.
NullOut(st) == [res |-> NULLP, fault |-> FALSE, ub |-> FALSE, st |-> st]
FaultOut(st) == [res |-> NULLP, fault |-> TRUE, ub |-> FALSE, st |-> st]
Found(st, j, u) == [res |-> j, fault |-> FALSE, ub |-> u, st |-> st]
UbOut(o) == [o EXCEPT !.ub = TRUE]

\* strstr ran past the copy of the table into the heap: a zero byte there
\* gives NULL; older bytes there can name any inode called name, or crash.
GarbageLookup(st, name) ==
    {NullOut(st), UbOut(FaultOut(st))}
    \cup {Found(st, j, TRUE) : j \in {i \in 0..(NumInodes - 1) : InodeName(st.ino[i]) = name}}

\* The leading digits of s.
LeadingDigits(s) ==
    LET n == CHOOSE m \in 0..Len(s) :
                 /\ \A j \in 1..m : IsDigit(s[j])
                 /\ (m = Len(s) \/ ~IsDigit(s[m + 1]))
    IN  SubSeq(s, 1, n)

\* ptr_from_offset + strcmp(subdir_inode->name, name).
InodeAt(st, off, name) ==
    IF InodeIdx(off) # WILD
    THEN {IF InodeName(st.ino[InodeIdx(off)]) = name
          THEN Found(st, InodeIdx(off), FALSE) ELSE NullOut(st)}
    ELSE IF off = WILD \/ off >= PageEnd THEN {FaultOut(st)}
    ELSE {UbOut(NullOut(st)), UbOut(FaultOut(st))}

dir_subitem_get(st, i, name) ==
    IF i = NULLP THEN {FaultOut(st)}
    ELSE
    Let(inode_data_get(st, i, st.ino[i].file_size_b), LAMBDA got :
    Let(got.st, LAMBDA s2 :
    Let(CStr(got.data), LAMBDA D :
    Let(FindSub(D, name, 1), LAMBDA p :
    Let(IF p = 0 THEN 0 ELSE FindSub(D, <<COLON>>, p), LAMBDA c :
    Let(IF p = 0 THEN 0 ELSE FindSub(D, <<NEWLINE>>, p), LAMBDA e :
        IF got.fault THEN {FaultOut(s2)}
        ELSE IF p = 0 \/ c = 0 \/ e = 0
        \* the copy of the table has a terminator only if the table held one
        THEN IF Len(D) < Len(got.data) THEN {NullOut(s2)} ELSE GarbageLookup(s2, name)
        \* offset_sz = offsetend_ptr - offset_ptr below zero: malloc and memcpy
        \* of nearly 2^64 bytes
        ELSE IF e < c THEN {FaultOut(s2)}
        ELSE
        Let(SubSeq(D, c + 1, e - 1), LAMBDA field :
        Let(LeadingDigits(field), LAMBDA digs :
        Let(IF Len(digs) > 9 THEN WILD ELSE DigitsVal(digs), LAMBDA val :
            \* sscanf stored nothing: offset keeps what the stack held
            IF Len(digs) = 0 THEN {UbOut(NullOut(s2)), UbOut(FaultOut(s2))}
            ELSE IF Len(digs) < Len(field) THEN InodeAt(s2, val, name)
            \* sscanf reads on into the byte of offset_str that memcpy left out
            ELSE InodeAt(s2, val, name)
                 \cup {UbOut(NullOut(s2)), UbOut(FaultOut(s2))})))))))))

\* The parts resolve_path cuts a path into: the scan starts at the second
\* byte, and a part always takes its first byte.
RECURSIVE PathParts(_, _)
PathParts(path, from) ==
    IF from > Len(path) THEN <<>>
    ELSE LET stop == CHOOSE q \in (from + 1)..(Len(path) + 1) :
                         /\ (q = Len(path) + 1 \/ path[q] = SLASH)
                         /\ \A r \in (from + 1)..(q - 1) : path[r] # SLASH
         IN  <<SubSeq(path, from, stop - 1)>> \o PathParts(path, stop + 1)

RECURSIVE Walk(_, _, _)
Walk(st, cur, parts) ==
    IF cur.fault \/ Len(parts) = 0 THEN {cur}
    ELSE UNION {Walk(o.st, [o EXCEPT !.ub = o.ub \/ cur.ub], Tail(parts)) :
                   o \in dir_subitem_get(st, cur.res, parts[1])}

fs_rootnode_get == 0

resolve_path(st, path) ==
    IF path = InodeName(st.ino[fs_rootnode_get])
    THEN {Found(st, fs_rootnode_get, FALSE)}
    \* no part is cut: curr_path_part is compared as the stack left it
    ELSE IF Len(path) <= 1 THEN {NullOut(st), Found(st, fs_rootnode_get, TRUE)}
    ELSE Walk(st, Found(st, fs_rootnode_get, FALSE), PathParts(path, 2))

\* ------------------------------------------------------------ helpers
\* file_new past its lookups: parent par holds no fname.
FileNewAt(st, par, fname, data, u) ==
    Let(inode_nextfree(st), LAMBDA i :
    Let(memblock_nextfree(st), LAMBDA nf :
        IF i = NULLP THEN [NullOut(st) EXCEPT !.ub = u]
        ELSE IF nf.fault THEN [FaultOut(st) EXCEPT !.ub = u]
        ELSE IF nf.k = NULLP \/ ~inode_name_isvalid(fname)
        THEN [NullOut(st) EXCEPT !.ub = u]
        ELSE
        Let([Mark(st, nf.over) EXCEPT !.ino[i] =
                [inode_name_set(@, fname) EXCEPT !.offset_firstblk = BlkOff(nf.k)]],
            LAMBDA s1 :
        Let(inode_data_append(inode_data_set(s1, i, data), par,
                              LookupLine(fname, InodeOff(i))), LAMBDA s3 :
            [res |-> i, fault |-> s3.fault, ub |-> u, st |-> s3]))))

file_new(st, path, fname, data) ==
    UNION {IF par.fault \/ par.res = NULLP THEN {par}
           ELSE {IF sub.fault THEN [sub EXCEPT !.ub = sub.ub \/ par.ub]
                 ELSE IF sub.res # NULLP
                 THEN [NullOut(sub.st) EXCEPT !.ub = sub.ub \/ par.ub]
                 ELSE FileNewAt(sub.st, par.res, fname, data, sub.ub \/ par.ub) :
                    sub \in dir_subitem_get(par.st, par.res, fname)} :
              par \in resolve_path(st, path)}

\* dir_new past its lookup: parent i holds no dirname.
DirNewAt(st, i, dirname, u) ==
    Let(inode_nextfree(st), LAMBDA new :
    Let(memblock_nextfree(st), LAMBDA nf :
        IF new = NULLP \/ nf.fault THEN [FaultOut(st) EXCEPT !.ub = u]
        ELSE
        Let([Mark(st, nf.over) EXCEPT !.ino[new].offset_firstblk = NextFreeOffset(st)],
            LAMBDA s1 :
            IF nf.k = NULLP THEN [NullOut(s1) EXCEPT !.ub = u]
            ELSE
            Let(inode_data_append(s1, i, LookupLine(dirname, InodeOff(new))), LAMBDA s2 :
            Let([s2 EXCEPT !.ino[i].subdirs = @ + 1,
                           !.ino[new] = [inode_name_set(@, dirname) EXCEPT !.is_dir = 1]],
                LAMBDA s4 :
            Let(inode_data_set(s4, new, <<>>), LAMBDA s5 :
                [res |-> new, fault |-> s5.fault, ub |-> u, st |-> s5]))))))

\* dir_new(fs, inode, dirname) with inode the outcome par of a lookup.
dir_new(par, dirname) ==
    IF par.fault THEN {par}
    ELSE IF par.res = NULLP THEN {[par EXCEPT !.fault = TRUE]}
    ELSE IF ~inode_isdir(par.st.ino[par.res]) \/ ~inode_name_isvalid(dirname)
    THEN {[par EXCEPT !.res = NULLP]}
    ELSE {IF sub.fault THEN [sub EXCEPT !.ub = sub.ub \/ par.ub]
          ELSE IF sub.res # NULLP
          THEN [NullOut(sub.st) EXCEPT !.ub = sub.ub \/ par.ub]
          ELSE DirNewAt(sub.st, par.res, dirname, sub.ub \/ par.ub) :
             sub \in dir_subitem_get(par.st, par.res, dirname)}

\* child_remove past its lookups, parent and child both found.
ChildRemoveAt(st, parent, child, u) ==
    Let(LookupLine(InodeName(st.ino[child]), InodeOff(child)), LAMBDA rmline :
    Let(inode_data_get(st, parent, st.ino[parent].file_size_b), LAMBDA got :
    Let(got.data, LAMBDA D :
    Let(FindSub(CStr(D), rmline, 1), LAMBDA q :
        \* line_start is NULL: the sizes of the two memcpy are taken from it
        IF got.fault \/ q = 0 THEN [FaultOut(got.st) EXCEPT !.ub = u]
        ELSE
        Let(SubSeq(D, 1, q - 1) \o SubSeq(D, q + Len(rmline), Len(D)), LAMBDA new_data :
        Let(inode_data_set(got.st, parent, new_data), LAMBDA s1 :
        Let(IF s1.ino[child].is_dir # 0
            THEN [s1 EXCEPT !.ino[parent].subdirs = @ - 1] ELSE s1, LAMBDA s2 :
        Let(inode_data_remove(s2, child, FALSE), LAMBDA s3 :
        Let([s3 EXCEPT !.ino[child].is_dir = 0, !.ino[child].subdirs = 0], LAMBDA s4 :
            [res |-> 1, fault |-> s4.fault, ub |-> u, st |-> s4])))))))))

\* child_remove: res is its return value.
child_remove(st, path) ==
    \* par_path is a byte shorter than what strcat puts into it
    {UbOut(FaultOut(st))} \cup
    UNION {IF par.fault THEN {par}
           ELSE {IF ch.fault THEN [ch EXCEPT !.ub = ch.ub \/ par.ub]
                 ELSE IF par.res = NULLP \/ ch.res = NULLP
                 THEN [ch EXCEPT !.res = 0, !.ub = ch.ub \/ par.ub]
                 ELSE ChildRemoveAt(ch.st, par.res, ch.res, ch.ub \/ par.ub) :
                    ch \in resolve_path(par.st, path)} :
              par \in resolve_path(st, SplitPath(path).par)}

\* fs_pathresolve: the lookup's outcome and what errnoptr holds after it.
fs_pathresolve(st, path, err) ==
    IF Len(path) = 0 \/ path[1] # SLASH
    THEN {[res |-> NULLP, fault |-> FALSE, ub |-> FALSE, st |-> st, err |-> "EINVAL"]}
    ELSE {[res |-> o.res, fault |-> o.fault, ub |-> o.ub, st |-> o.st,
           err |-> IF ~o.fault /\ o.res = NULLP THEN "ENOENT" ELSE err] :
             o \in resolve_path(st, path)}

\* ------------------------------------------------------------ operations
\* What a call leaves: the region, the value returned, what errnoptr holds
\* ("none" while it was never stored to), the bytes put into the caller's
\* buffer, and ub.  A call on a region with st.fault set never returned.
Ret(st, ret, err, out, u) ==
    [st |-> st, ret |-> ret, err |-> err, out |-> out, ub |-> u, ino |-> NULLP]
\* The same calls, with the inode the call worked on.
On(i, S) == {[o EXCEPT !.ino = i] : o \in S}
Crash(st, u) == Ret(Flt(st), 0, "none", <<>>, u)

\* A call that reached past the region's end either went through or ended
\* in a fault.
Settle(S) ==
    UNION {IF o.st.over /\ ~o.st.fault THEN {[o EXCEPT !.ub = TRUE], Crash(o.st, TRUE)}
           ELSE {o} : o \in S}

\* What bytes that were never written can hold: zeros, the bytes the
\* caller hoped for, or anything else.
Tails(n, hoped) == {Zeros(n), hoped, Rep(255, n)}

\* __myfs_mknod_implem
MknodImplem(st, path) ==
    UNION {IF r.fault THEN {Crash(r.st, r.ub)}
           ELSE IF r.res # NULLP THEN {Ret(r.st, 0 - 1, "EEXIST", <<>>, r.ub)}
           \* abspath is a byte shorter than what strcat puts into it
           ELSE {Crash(r.st, TRUE)} \cup
                {IF f.fault THEN Crash(f.st, r.ub \/ f.ub)
                 ELSE IF f.res = NULLP
                 THEN Ret(f.st, 0 - 1, "EINVAL", <<>>, r.ub \/ f.ub)
                 ELSE [Ret(f.st, 0, r.err, <<>>, r.ub \/ f.ub) EXCEPT !.ino = f.res] :
                    f \in file_new(r.st, SplitPath(path).par, SplitPath(path).name, <<>>)} :
              r \in fs_pathresolve(st, path, "none")}

\* __myfs_open_implem
OpenImplem(st, path) ==
    {IF r.fault THEN Crash(r.st, r.ub)
     ELSE IF r.res = NULLP THEN Ret(r.st, 0 - 1, r.err, <<>>, r.ub)
     ELSE [Ret(r.st, 0, r.err, <<>>, r.ub) EXCEPT !.ino = r.res] :
        r \in fs_pathresolve(st, path, "none")}

\* The address of tspec in the frame of inode_lasttimes_set: an address in
\* the stack.
TspecAddr == 2147479552
\* The number in the eight bytes of the field last_acc or last_mod.
PtrVal(p) == IF p = "null" THEN 0 ELSE TspecAddr

\* What __myfs_getattr_implem puts into stbuf: st_mode, st_nlink, st_size,
\* st_atim and st_mtim, each as tv_sec and tv_nsec.  The sixteen bytes read
\* at &inode->last_acc are the fields last_acc and last_mod, those read at
\* &inode->last_mod are last_mod and offset_firstblk.
Stat(ino) ==
    (IF ino.is_dir # 0 THEN <<16384 + 493, ino.subdirs + 2, 0>>
     ELSE <<32768 + 493, 1, ino.file_size_b>>)
    \o << <<PtrVal(ino.last_acc), PtrVal(ino.last_mod)>>,
           <<PtrVal(ino.last_mod), ino.offset_firstblk>> >>

\* __myfs_getattr_implem
GetattrImplem(st, path) ==
    {IF r.fault THEN Crash(r.st, r.ub)
     ELSE IF r.res = NULLP THEN Ret(r.st, 0 - 1, r.err, <<>>, r.ub)
     ELSE [Ret(r.st, 0, r.err, Stat(r.st.ino[r.res]), r.ub) EXCEPT !.ino = r.res] :
        r \in fs_pathresolve(st, path, "none")}

\* The names the strsep loop of readdir takes from the lines of s: it stops
\* at the token with no separator after it and at a token whose first byte
\* is at most 64 or not valid in a name.
RECURSIVE ListNames(_)
ListNames(s) ==
    LET e == FindSub(s, <<NEWLINE>>, 1)
        c == FindSub(SubSeq(s, 1, e - 1), <<COLON>>, 1)
    IN  IF e <= 1 THEN <<>>
        ELSE IF s[1] <= 64 \/ ~inode_name_charvalid(s[1]) THEN <<>>
        ELSE <<SubSeq(s, 1, (IF c = 0 THEN e ELSE c) - 1)>>
             \o ListNames(SubSeq(s, e + 1, Len(s)))

\* __myfs_readdir_implem: out holds the names.  The byte after the table in
\* data was never written, and the newline goes one byte past data; the
\* pointers go into an array of names_count bytes.
ReaddirImplem(st, path) ==
    UNION {IF r.fault THEN {Crash(r.st, r.ub)}
           ELSE IF r.res = NULLP THEN {Ret(r.st, 0 - 1, r.err, <<>>, r.ub)}
           ELSE IF r.st.ino[r.res].is_dir = 0
           THEN On(r.res, {Ret(r.st, 0 - 1, "ENOTDIR", <<>>, r.ub)})
           ELSE
           Let(inode_data_get(r.st, r.res, r.st.ino[r.res].file_size_b + 1), LAMBDA got :
           Let(ListNames(CStr(got.data)), LAMBDA names :
               IF got.fault THEN {Crash(got.st, r.ub)}
               ELSE On(r.res, {Ret(got.st, Len(names), r.err, names, r.ub),
                               Ret(got.st, Len(names) + 1, r.err,
                                   names \o <<<<120>>>>, TRUE),
                               Crash(got.st, TRUE)}))) :
              r \in fs_pathresolve(st, path, "none")}

\* __myfs_utimens_implem: the two memcpy go to the addresses kept in
\* last_acc and last_mod, which inode_lasttimes_set took from its frame;
\* the bytes of ts reach no byte of the region.
UtimensImplem(st, path) ==
    UNION {IF r.fault THEN {Crash(r.st, r.ub)}
           ELSE IF r.res = NULLP THEN {Ret(r.st, 0 - 1, r.err, <<>>, r.ub)}
           ELSE IF r.st.ino[r.res].last_acc = "null" \/ r.st.ino[r.res].last_mod = "null"
           THEN On(r.res, {Crash(r.st, r.ub)})
           ELSE On(r.res, {Ret(r.st, 0, r.err, <<>>, TRUE), Crash(r.st, TRUE)}) :
              r \in fs_pathresolve(st, path, "none")}

\* __myfs_read_implem past its lookup, on inode i.
ReadAt(st, i, size, offset, err, u) ==
    Let(inode_data_get(st, i, st.ino[i].file_size_b), LAMBDA got :
    Let(Len(got.data), LAMBDA data_size :
    Let(data_size - offset, LAMBDA cpy_size :
        IF got.fault THEN {Crash(got.st, u)}
        ELSE IF offset <= data_size
        THEN {Ret(got.st, cpy_size, err, SubSeq(got.data, offset + 1, data_size), u)}
             \* memcpy of cpy_size bytes into a buffer of size bytes
             \cup (IF cpy_size > size THEN {Crash(got.st, TRUE)} ELSE {})
        ELSE {Ret(got.st, 0, "EFBIG", <<>>, u)})))

ReadImplem(st, path, size, offset) ==
    IF size = 0 THEN {Ret(st, 0, "none", <<>>, FALSE)}
    ELSE UNION {IF r.fault THEN {Crash(r.st, r.ub)}
                ELSE IF r.res = NULLP THEN {Ret(r.st, 0 - 1, r.err, <<>>, r.ub)}
                ELSE On(r.res, ReadAt(r.st, r.res, size, offset, r.err, r.ub)) :
                   r \in fs_pathresolve(st, path, "none")}

\* strndup(src, n) followed by a use of n bytes of the copy: the copy ends
\* at the first zero byte of src; [data, ub, over] with over set when bytes
\* past the copy are read.
Strndup(src, n) ==
    LET s == SubSeq(src, 1, n)
        len == Len(CStr(s))
    IN  IF len >= n - 1 THEN {[data |-> s, ub |-> FALSE, over |-> FALSE]}
        ELSE {[data |-> SubSeq(s, 1, len) \o <<0>> \o t,
               ub |-> t # Zeros(n - len - 1), over |-> TRUE] :
                 t \in Tails(n - len - 1, SubSeq(s, len + 2, n))}

\* __myfs_write_implem past its lookup, on inode i.
WriteAt(st, i, buf, offset, err, u) ==
    Let(Len(buf), LAMBDA size :
        IF offset = 0
        THEN UNION {{Ret(inode_data_set(st, i, d.data), size, err, <<>>, u \/ d.ub)}
                    \* memcpy reads size bytes from a copy that is shorter
                    \cup (IF d.over THEN {Crash(st, TRUE)} ELSE {}) :
                       d \in Strndup(buf, size)}
        ELSE
        Let(inode_data_get(st, i, st.ino[i].file_size_b), LAMBDA got :
            IF got.fault THEN {Crash(got.st, u)}
            ELSE IF offset <= Len(got.data)
            THEN {Ret(inode_data_set(got.st, i, d.data \o buf), size, err, <<>>,
                      u \/ d.ub) : d \in Strndup(got.data, offset)}
            ELSE {Ret(got.st, 0, "EFBIG", <<>>, u)}))

WriteImplem(st, path, buf, offset) ==
    IF Len(buf) = 0 THEN {Ret(st, 0, "none", <<>>, FALSE)}
    ELSE UNION {IF r.fault THEN {Crash(r.st, r.ub)}
                ELSE IF r.res = NULLP THEN {Ret(r.st, 0 - 1, r.err, <<>>, r.ub)}
                ELSE On(r.res, WriteAt(r.st, r.res, buf, offset, r.err, r.ub)) :
                   r \in fs_pathresolve(st, path, "none")}

\* __myfs_truncate_implem with the shrinking branch storing the whole old
\* payload instead of its first offset bytes.
TruncateAtKeepsTail(st, i, offset, err, u) ==
    Let(inode_data_get(st, i, st.ino[i].file_size_b), LAMBDA got :
    Let(Len(got.data), LAMBDA data_size :
        IF got.fault THEN Crash(got.st, u)
        ELSE IF offset > data_size
        THEN Ret(inode_data_append(got.st, i, Zeros(offset - data_size)), 0, err, <<>>, u)
        ELSE IF offset < data_size
        THEN Ret(inode_data_set(got.st, i, got.data), 0, err, <<>>, u)
        ELSE Ret(got.st, 0, err, <<>>, u)))

\* __myfs_truncate_implem past its lookup, on inode i.
TruncateAt(st, i, offset, err, u) ==
    Let(inode_data_get(st, i, st.ino[i].file_size_b), LAMBDA got :
    Let(Len(got.data), LAMBDA data_size :
        IF got.fault THEN Crash(got.st, u)
        ELSE IF offset > data_size
        THEN Ret(inode_data_append(got.st, i, Zeros(offset - data_size)), 0, err, <<>>, u)
        ELSE IF offset < data_size
        THEN Ret(inode_data_set(got.st, i, SubSeq(got.data, 1, offset)), 0, err, <<>>, u)
        ELSE Ret(got.st, 0, err, <<>>, u)))

TruncateImplem(st, path, offset) ==
    {IF r.fault THEN Crash(r.st, r.ub)
     ELSE IF r.res = NULLP THEN Ret(r.st, 0 - 1, r.err, <<>>, r.ub)
     ELSE [TruncateAt(r.st, r.res, offset, r.err, r.ub) EXCEPT !.ino = r.res] :
        r \in fs_pathresolve(st, path, "none")}

\* __myfs_unlink_implem
UnlinkImplem(st, path) ==
    UNION {IF r.fault THEN {Crash(r.st, r.ub)}
           ELSE IF r.res = NULLP THEN {Ret(r.st, 0 - 1, r.err, <<>>, r.ub)}
           ELSE IF r.st.ino[r.res].is_dir # 0
           THEN {Ret(r.st, 0 - 1, "EINVAL", <<>>, r.ub)}
           ELSE {IF c.fault THEN Crash(c.st, r.ub \/ c.ub)
                 ELSE IF c.res = 0 THEN Ret(c.st, 0 - 1, "EINVAL", <<>>, r.ub \/ c.ub)
                 ELSE [Ret(c.st, 0, r.err, <<>>, r.ub \/ c.ub) EXCEPT !.ino = r.res] :
                    c \in child_remove(r.st, path)} :
              r \in fs_pathresolve(st, path, "none")}

\* __myfs_rmdir_implem without its test of file_size_b.
RmdirImplemNoEmptyTest(st, path) ==
    UNION {IF r.fault THEN {Crash(r.st, r.ub)}
           ELSE IF r.res = NULLP THEN {Ret(r.st, 0 - 1, r.err, <<>>, r.ub)}
           ELSE On(r.res,
                   {IF c.fault THEN Crash(c.st, r.ub \/ c.ub)
                    ELSE IF c.res = 0 THEN Ret(c.st, 0 - 1, "EINVAL", <<>>, r.ub \/ c.ub)
                    ELSE Ret(c.st, 0, r.err, <<>>, r.ub \/ c.ub) :
                       c \in child_remove(r.st, path)}) :
              r \in fs_pathresolve(st, path, "none")}

\* __myfs_rmdir_implem
RmdirImplem(st, path) ==
    UNION {IF r.fault THEN {Crash(r.st, r.ub)}
           ELSE IF r.res = NULLP THEN {Ret(r.st, 0 - 1, r.err, <<>>, r.ub)}
           ELSE IF r.st.ino[r.res].file_size_b # 0
           THEN On(r.res, {Ret(r.st, 0 - 1, "ENOTEMPTY", <<>>, r.ub)})
           ELSE On(r.res,
                   {IF c.fault THEN Crash(c.st, r.ub \/ c.ub)
                    ELSE IF c.res = 0 THEN Ret(c.st, 0 - 1, "EINVAL", <<>>, r.ub \/ c.ub)
                    ELSE Ret(c.st, 0, r.err, <<>>, r.ub \/ c.ub) :
                       c \in child_remove(r.st, path)}) :
              r \in fs_pathresolve(st, path, "none")}

\* __myfs_mkdir_implem
MkdirImplem(st, path) ==
    UNION {IF r.fault THEN {Crash(r.st, r.ub)}
           ELSE IF r.res # NULLP THEN {Ret(r.st, 0 - 1, "EEXIST", <<>>, r.ub)}
           ELSE {Crash(r.st, TRUE)} \cup
                UNION {{IF d.fault THEN Crash(d.st, r.ub \/ d.ub)
                        ELSE IF d.res = NULLP
                        THEN Ret(d.st, 0 - 1, "EINVAL", <<>>, r.ub \/ d.ub)
                        ELSE [Ret(d.st, 0, par.err, <<>>, r.ub \/ d.ub)
                                 EXCEPT !.ino = d.res] :
                           d \in dir_new([res |-> par.res, fault |-> par.fault,
                                          ub |-> par.ub, st |-> par.st],
                                         SplitPath(path).name)} :
                         par \in fs_pathresolve(r.st, SplitPath(path).par, r.err)} :
              r \in fs_pathresolve(st, path, "none")}

\* str_name_offset: the index of the last name in path.
str_name_offset(path) ==
    LET toks == Tokens(Tail(path))
    IN  Len(path) - Len(toks[Len(toks)])

\* The four lookups of rename: from's parent, to's parent, from, to.
RenameLookups(st, from, to) ==
    LET from_idx == str_name_offset(from)
        from_path == SubSeq(from, 1, IF from_idx > 1 THEN from_idx - 1 ELSE from_idx)
        to_path == SubSeq(to, 1, str_name_offset(to))
    IN  UNION {UNION {UNION {
          {[fp |-> a.res, tp |-> b.res, fc |-> c.res, tc |-> d.res,
            fault |-> a.fault \/ b.fault \/ c.fault \/ d.fault,
            ub |-> a.ub \/ b.ub \/ c.ub \/ d.ub, st |-> d.st, err |-> d.err] :
              d \in fs_pathresolve(c.st, to, c.err)} :
              c \in fs_pathresolve(b.st, from, b.err)} :
              b \in fs_pathresolve(a.st, to_path, a.err)} :
              a \in fs_pathresolve(st, from_path, "none")}

\* The data move of rename once from, its parent and to's parent are found:
\* [st, fault, ub, refused], refused for the return of -1 with EINVAL.
RenameData(l, to) ==
    LET M(s, f, u, r) == [st |-> s, fault |-> f, ub |-> u, refused |-> r]
    IN
    Let(l.st, LAMBDA st :
    Let(str_name_offset(to), LAMBDA to_idx :
    Let(inode_data_get(st, l.fc, st.ino[l.fc].file_size_b), LAMBDA got :
        IF st.ino[l.fc].is_dir # 0
        THEN IF l.tc = NULLP
             THEN UNION {IF dest.fault \/ dest.res = NULLP
                         THEN {M(dest.st, TRUE, l.ub \/ dest.ub, FALSE)}
                         ELSE Let(inode_data_get(dest.st, l.fc, st.ino[l.fc].file_size_b),
                                  LAMBDA g :
                                  IF g.fault THEN {M(g.st, TRUE, l.ub \/ dest.ub, FALSE)}
                                  ELSE {M(inode_data_set(g.st, dest.res, g.data), FALSE,
                                          l.ub \/ dest.ub, FALSE)}) :
                            dest \in dir_new([res |-> l.tp, fault |-> FALSE,
                                              ub |-> FALSE, st |-> st],
                                             SubSeq(to, to_idx + 1, Len(to)))}
             ELSE IF st.ino[l.tc].is_dir # 0 /\ st.ino[l.tc].file_size_b = 0
             THEN IF got.fault THEN {M(got.st, TRUE, l.ub, FALSE)}
                  ELSE {M(inode_data_set(got.st, l.tc, got.data), FALSE, l.ub, FALSE)}
             ELSE {M(st, FALSE, l.ub, TRUE)}
        ELSE IF got.fault THEN {M(got.st, TRUE, l.ub, FALSE)}
        ELSE IF l.tc # NULLP
        THEN {M(inode_data_set(got.st, l.tc, got.data), FALSE, l.ub, FALSE)}
        ELSE {M(f.st, f.fault, l.ub \/ f.ub, FALSE) :
                 f \in file_new(got.st, SubSeq(to, 1, to_idx),
                                SubSeq(to, to_idx + 1, Len(to)), got.data)})))

\* The move of rename with the refusal taken as one more way to move: the
\* old name is removed and 0 returned.
RenameMoveNoRefusal(l, from, to) ==
    UNION {IF m.fault THEN {Crash(m.st, m.ub)}
           ELSE {IF c.fault THEN Crash(c.st, m.ub \/ c.ub)
                 ELSE Ret(c.st, 0, l.err, <<>>, m.ub \/ c.ub) :
                    c \in child_remove(m.st, from)} :
              m \in RenameData(l, to)}

\* The move of rename: the data move, then child_remove(fs, from), the
\* value of which is dropped.
RenameMove(l, from, to) ==
    UNION {IF m.fault THEN {Crash(m.st, m.ub)}
           ELSE IF m.refused THEN {Ret(m.st, 0 - 1, "EINVAL", <<>>, m.ub)}
           ELSE {IF c.fault THEN Crash(c.st, m.ub \/ c.ub)
                 ELSE Ret(c.st, 0, l.err, <<>>, m.ub \/ c.ub) :
                    c \in child_remove(m.st, from)} :
              m \in RenameData(l, to)}

\* __myfs_rename_implem without its first line, the return on from = to.
RenameImplemNoSameTest(st, from, to) ==
    UNION {IF l.fault THEN {Crash(l.st, l.ub)}
           ELSE IF l.fp = NULLP \/ l.fc = NULLP \/ l.tp = NULLP
           THEN {Ret(l.st, 0 - 1, "EINVAL", <<>>, l.ub)}
           ELSE On(l.fc, RenameMove(l, from, to)) :
              l \in RenameLookups(st, from, to)}

\* __myfs_rename_implem
RenameImplem(st, from, to) ==
    IF from = to THEN {Ret(st, 0, "none", <<>>, FALSE)}
    ELSE UNION {IF l.fault THEN {Crash(l.st, l.ub)}
                ELSE IF l.fp = NULLP \/ l.fc = NULLP \/ l.tp = NULLP
                THEN {Ret(l.st, 0 - 1, "EINVAL", <<>>, l.ub)}
                ELSE On(l.fc, RenameMove(l, from, to)) :
                   l \in RenameLookups(st, from, to)}

\* ------------------------------------------------------------ state
\* fs_init on a region of zeros: the root directory in inode 0 and block 0.
\* The blocks carry one more entry, for the bytes past the last block that
\* the last data field reaches.
RootInode ==
    [ZeroInode EXCEPT !.name = <<SLASH>>, !.is_dir = 1,
                      !.last_acc = "dangling", !.last_mod = "dangling",
                      !.offset_firstblk = MemSegOff]
fs_init ==
    [ino |-> [i \in 0..(NumInodes - 1) |-> IF i = 0 THEN RootInode ELSE ZeroInode],
     blk |-> [k \in 0..NumBlocks |->
                 IF k = 0 THEN [ZeroBlock EXCEPT !.hdr = <<1>> \o Zeros(ST_SZ_MEMHEAD - 1)]
                 ELSE ZeroBlock]]

St == [ino |-> inodes, blk |-> blocks, fault |-> FALSE, over |-> FALSE]

\* ------------------------------------------------------------ the handle
\* MAGIC_NUM as the four bytes of the uint32_t 0xdeadd0c5.
MAGIC_NUM == <<197, 208, 173, 222>>

\* The first ST_SZ_FSHANDLE bytes of a region of zeros.
ZeroHandle ==
    [magic |-> Zeros(4), size_b |-> 0, num_inodes |-> 0, num_memblocks |-> 0,
     inode_seg |-> 0, mem_seg |-> 0]

\* The fields fs_init stores into the handle, in both of its branches, for
\* a region of size bytes mapped at fsptr.
HandleFor(fsptr, size) ==
    LET n == SizingLoop(0, size - FS_START_OFFSET)
    IN  [magic |-> MAGIC_NUM, size_b |-> size - FS_START_OFFSET,
         num_inodes |-> n, num_memblocks |-> n * BLOCKS_TO_INODES,
         inode_seg |-> fsptr + FS_START_OFFSET,
         mem_seg |-> fsptr + FS_START_OFFSET + ST_SZ_INODE * n]

\* The formatting branch of fs_init on a region of size bytes that held
\* zeros: n inodes and n blocks, the root directory in inode 0 and block 0.
FormatRegion(size) ==
    LET n == SizingLoop(0, size - FS_START_OFFSET)
    IN  [ino |-> [i \in 0..(n - 1) |->
                     IF i = 0
                     THEN [RootInode EXCEPT !.offset_firstblk =
                              FS_START_OFFSET + ST_SZ_INODE * n]
                     ELSE ZeroInode],
         blk |-> [k \in 0..(n * BLOCKS_TO_INODES) |->
                     IF k = 0
                     THEN [ZeroBlock EXCEPT !.hdr = <<1>> \o Zeros(ST_SZ_MEMHEAD - 1)]
                     ELSE ZeroBlock]]

\* The bytes s that start at offset addr after memset(fsptr, 0, limit).
ZeroBelow(s, addr, limit) ==
    [j \in 1..Len(s) |-> IF addr + j - 1 < limit THEN 0 ELSE s[j]]

\* The blocks blk of a region of size bytes after fs_init's memset of
\* fs_size bytes and its store to the first block's not_free.
FormatBlocks(blk, size) ==
    LET limit == size - FS_START_OFFSET
        seg == FS_START_OFFSET + ST_SZ_INODE * SizingLoop(0, size - FS_START_OFFSET)
    IN  [k \in DOMAIN blk |->
            LET off == seg + MEMBLOCK_SZ_B * k
                hdr == ZeroBelow(blk[k].hdr, off, limit)
            IN  [hdr |-> IF k = 0 THEN <<1, 0, 0, 0>> \o SubSeq(hdr, 5, ST_SZ_MEMHEAD)
                         ELSE hdr,
                 gap |-> Trim(ZeroBelow(blk[k].gap, off + ST_SZ_MEMHEAD, limit)),
                 body |-> Trim(ZeroBelow(blk[k].body, off + DataFieldOff, limit))]]

\* fs_handle: fs_init on the region (handle h, inodes and blocks st) that
\* the host mapped as m.  ok is FALSE for the NULL handle.
fs_handle(h, st, m) ==
    IF m.size < MIN_FS_SZ_B THEN [ok |-> FALSE, handle |-> h, st |-> st]
    ELSE IF h.magic # MAGIC_NUM
    THEN [ok |-> TRUE, handle |-> HandleFor(m.memory, m.size),
          st |-> [st EXCEPT !.ino = FormatRegion(m.size).ino,
                            !.blk = FormatBlocks(st.blk, m.size)]]
    ELSE [ok |-> TRUE, handle |-> HandleFor(m.memory, m.size), st |-> st]

\* The address the host's mmap gave for the region.
MapBase == 1048576

\* The preamble of every handler: fs_handle, and -1 with EFAULT when it
\* gives NULL; Rest is the handler from there on.
Bound(Rest(_)) ==
    Let(fs_handle(handle, St, mount), LAMBDA b :
        IF b.ok THEN Rest(b.st)
        ELSE {[st |-> St, ret |-> 0 - 1, err |-> "EFAULT", out |-> <<>>,
               ub |-> FALSE, ino |-> NULLP]})

\* read and write of no bytes and rename of a path to itself return before
\* the preamble.
Binds(op, path, to, size) ==
    /\ ~(op = "rename" /\ path = to)
    /\ ~(op \in {"read", "write"} /\ size = 0)

\* memblocks_numfree: the blocks the payload sizes of the first n_inodes
\* inodes account for, taken from n_blocks.
RECURSIVE BlocksUsed(_, _)
BlocksUsed(ino, n) ==
    IF n = 0 THEN 0
    ELSE BlocksUsed(ino, n - 1)
         + (IF ino[n - 1].file_size_b % DATAFIELD_SZ_B > 0 THEN 1 ELSE 0)
         + ino[n - 1].file_size_b \div DATAFIELD_SZ_B
memblocks_numfree(st, h) == h.num_memblocks - BlocksUsed(st.ino, h.num_inodes)

\* __myfs_statfs_implem past the preamble, with h the handle fs_init
\* filled: out holds f_bsize, f_blocks, f_bfree, f_bavail, f_namemax.
StatfsImplem(st, h) ==
    Let(memblocks_numfree(st, h), LAMBDA blocks_free :
        {[st |-> st, ret |-> 0, err |-> "none",
          out |-> <<DATAFIELD_SZ_B, 0, blocks_free, blocks_free, NAME_MAXLEN>>,
          ub |-> FALSE, ino |-> NULLP]})

\* The data of inode i's chain, as memblock_data_get collects it.
Payload(st, i) ==
    memblock_data_get(st, BlkIdx(st.ino[i].offset_firstblk),
                      <<>>, PageEnd, NumBlocks, FALSE).data

Kind(st, i) ==
    IF i = NULLP THEN "none" ELSE IF st.ino[i].is_dir # 0 THEN "dir" ELSE "file"

CountByte(s, b) == Cardinality({j \in 1..Len(s) : s[j] = b})

\* The lines of all directory tables.
RECURSIVE EntriesUpTo(_, _)
EntriesUpTo(st, n) ==
    IF n < 0 THEN 0
    ELSE EntriesUpTo(st, n - 1) +
         (IF st.ino[n].is_dir # 0 THEN CountByte(Payload(st, n), NEWLINE) ELSE 0)
Entries(st) == EntriesUpTo(st, NumInodes - 1)

\* inodes_numfree_debug
inodes_numfree(st) == Cardinality({i \in 0..(NumInodes - 1) : inode_isfree(st.ino[i])})

NoCall ==
    [op |-> "none", path |-> <<>>, to |-> <<>>, buf |-> <<>>, size |-> 0, offset |-> 0,
     ret |-> 0, err |-> "none", out |-> <<>>, ub |-> FALSE, ino |-> NULLP,
     kind |-> "none", pre |-> <<>>, had |-> FALSE, entries |-> 0, nfree |-> 0]

\* The host's threads, and where each stands in its handler: at "idle" it
\* runs none, at "lock" it is in pthread_mutex_lock, at "core" in the
\* core's function, at "unlock" before pthread_mutex_unlock, at "ret" at
\* the return statement, at "ended" the process is no more.
Threads == {1, 2}
NoThread == 0
Idle == [at |-> "idle", op |-> "none", path |-> <<>>]
\* An invalid access ends the process and all its threads.
Ended == [at |-> "ended", op |-> "none", path |-> <<>>]

Init ==
    /\ mount = [memory |-> MapBase, size |-> FsSize]
    /\ handle = HandleFor(MapBase, FsSize)
    /\ inodes = fs_init.ino
    /\ blocks = fs_init.blk
    /\ fault = FALSE
    /\ last = NoCall
    /\ live = {}
    /\ env_lock = NoThread
    /\ pc = [t \in Threads |-> Idle]

\* The core's function op has run with outcome o.
InCore(op, path, to, buf, size, offset, o) ==
    /\ inodes' = IF o.st.fault THEN inodes ELSE o.st.ino
    /\ blocks' = IF o.st.fault THEN blocks ELSE o.st.blk
    /\ fault' = o.st.fault
    /\ last' = [op |-> op, path |-> path, to |-> to, buf |-> buf, size |-> size,
                offset |-> offset, ret |-> o.ret, err |-> o.err, out |-> o.out,
                ub |-> o.ub, ino |-> o.ino, kind |-> Kind(St, o.ino),
                pre |-> IF o.ino = NULLP THEN <<>> ELSE Payload(St, o.ino),
                had |-> path \in live, entries |-> Entries(St),
                nfree |-> inodes_numfree(St)]
    /\ handle' = IF Binds(op, path, to, size)
                 THEN fs_handle(handle, St, mount).handle ELSE handle
    /\ mount' = mount

\* The call op with outcome o has happened: one thread ran the handler from
\* its first line to its return while no other thread was in a handler.
Called(op, path, to, buf, size, offset, o) ==
    /\ InCore(op, path, to, buf, size, offset, o)
    /\ UNCHANGED <<env_lock, pc>>

IsPrefix(p, q) == Len(p) <= Len(q) /\ SubSeq(q, 1, Len(p)) = p
\* q is p or lies below p.
Under(p, q) == q = p \/ IsPrefix(p \o <<SLASH>>, q)

\* ------------------------------------------------------------ actions
\* A run is followed up to its first fault, and up to the first call whose
\* outcome came from bytes the code never wrote.
Running == ~fault /\ ~last.ub

Mknod(P) ==
    \E path \in P : \E o \in Settle(Bound(LAMBDA s : MknodImplem(s, path))) :
        /\ Running
        /\ Called("mknod", path, <<>>, <<>>, 0, 0, o)
        /\ live' = IF ~o.st.fault /\ o.ret = 0 THEN live \cup {path} ELSE live

Mkdir(P) ==
    \E path \in P : \E o \in Settle(Bound(LAMBDA s : MkdirImplem(s, path))) :
        /\ Running
        /\ Called("mkdir", path, <<>>, <<>>, 0, 0, o)
        /\ live' = IF ~o.st.fault /\ o.ret = 0 THEN live \cup {path} ELSE live

Unlink(P) ==
    \E path \in P : \E o \in Settle(Bound(LAMBDA s : UnlinkImplem(s, path))) :
        /\ Running
        /\ Called("unlink", path, <<>>, <<>>, 0, 0, o)
        /\ live' = IF ~o.st.fault /\ o.ret = 0 THEN live \ {path} ELSE live

Rmdir(P) ==
    \E path \in P : \E o \in Settle(Bound(LAMBDA s : RmdirImplem(s, path))) :
        /\ Running
        /\ Called("rmdir", path, <<>>, <<>>, 0, 0, o)
        /\ live' = IF ~o.st.fault /\ o.ret = 0 THEN live \ {path} ELSE live

Rename(P) ==
    \E from \in P : \E to \in P : \E o \in Settle(IF from = to THEN RenameImplem(St, from, to)
                                     ELSE Bound(LAMBDA s : RenameImplem(s, from, to))) :
        /\ Running
        /\ Called("rename", from, to, <<>>, 0, 0, o)
        /\ live' = IF ~o.st.fault /\ o.ret = 0 /\ from # to
                   THEN {q \in live : ~Under(from, q)} ELSE live

Open(P) ==
    \E path \in P : \E o \in Settle(Bound(LAMBDA s : OpenImplem(s, path))) :
        /\ Running
        /\ Called("open", path, <<>>, <<>>, 0, 0, o)
        /\ live' = live

Getattr(P) ==
    \E path \in P : \E o \in Settle(Bound(LAMBDA s : GetattrImplem(s, path))) :
        /\ Running
        /\ Called("getattr", path, <<>>, <<>>, 0, 0, o)
        /\ live' = live

Readdir(P) ==
    \E path \in P : \E o \in Settle(Bound(LAMBDA s : ReaddirImplem(s, path))) :
        /\ Running
        /\ Called("readdir", path, <<>>, <<>>, 0, 0, o)
        /\ live' = live

\* ts is passed as tv_sec and tv_nsec of ts[0], then those of ts[1].
Utimens(P, Times) ==
    \E path \in P : \E ts \in Times :
        \E o \in Settle(Bound(LAMBDA s : UtimensImplem(s, path))) :
            /\ Running
            /\ Called("utimens", path, <<>>, ts, 0, 0, o)
            /\ live' = live

Read(P, Sizes, Offsets) ==
    \E path \in P : \E size \in Sizes : \E offset \in Offsets :
        \E o \in Settle(IF size = 0 THEN ReadImplem(St, path, size, offset)
                        ELSE Bound(LAMBDA s : ReadImplem(s, path, size, offset))) :
            /\ Running
            /\ Called("read", path, <<>>, <<>>, size, offset, o)
            /\ live' = live

Write(P, Bufs, Offsets) ==
    \E path \in P : \E buf \in Bufs : \E offset \in Offsets :
        \E o \in Settle(IF Len(buf) = 0 THEN WriteImplem(St, path, buf, offset)
                        ELSE Bound(LAMBDA s : WriteImplem(s, path, buf, offset))) :
            /\ Running
            /\ Called("write", path, <<>>, buf, Len(buf), offset, o)
            /\ live' = live

Truncate(P, Offsets) ==
    \E path \in P : \E offset \in Offsets :
        \E o \in Settle(Bound(LAMBDA s : TruncateImplem(s, path, offset))) :
            /\ Running
            /\ Called("truncate", path, <<>>, <<>>, 0, offset, o)
            /\ live' = live

Statfs ==
    \E o \in Bound(LAMBDA s : StatfsImplem(s, HandleFor(mount.memory, mount.size))) :
        /\ Running
        /\ Called("statfs", <<>>, <<>>, <<>>, 0, 0, o)
        /\ live' = live

\* The host unmounts and mounts again with the same backup file: the region
\* keeps its bytes and its size, and mmap gives an address of its choice.
Remap(Bases) ==
    \E b \in Bases :
        /\ Running
        /\ b # mount.memory
        /\ mount' = [mount EXCEPT !.memory = b]
        /\ last' = [NoCall EXCEPT !.op = "remap"]
        /\ UNCHANGED <<inodes, blocks, fault, live, handle, env_lock, pc>>

\* ------------------------------------------------------------ the host
\* A thread enters a handler. __myfs_mknod returns -EPERM before it touches
\* the mutex when the mode is not that of a regular file; every other path
\* goes to pthread_mutex_lock.
HostCall(t, P) ==
    /\ pc[t].at = "idle"
    /\ \E op \in {"mknod", "unlink", "fsync"} : \E path \in P : \E reg \in BOOLEAN :
           pc' = [pc EXCEPT ![t] =
                     [at |-> IF op = "mknod" /\ ~reg THEN "ret" ELSE "lock",
                      op |-> op, path |-> IF op = "fsync" THEN <<>> ELSE path]]
    /\ UNCHANGED <<inodes, blocks, fault, last, live, handle, mount, env_lock>>

\* A handler that returns after the core's call without pthread_mutex_unlock.
HostUnlockForgotten(t) ==
    /\ pc[t].at = "unlock"
    /\ pc' = [pc EXCEPT ![t].at = "ret"]
    /\ UNCHANGED <<inodes, blocks, fault, last, live, handle, mount, env_lock>>

\* pthread_mutex_lock returns once the mutex is free, and the thread holds it.
HostLock(t) ==
    /\ pc[t].at = "lock"
    /\ env_lock = NoThread
    /\ env_lock' = t
    /\ pc' = [pc EXCEPT ![t].at = "core"]
    /\ UNCHANGED <<inodes, blocks, fault, last, live, handle, mount>>

\* The thread's call of __myfs_mknod_implem.
HostMknod(t) ==
    /\ pc[t].at = "core" /\ pc[t].op = "mknod"
    /\ \E o \in Settle(Bound(LAMBDA s : MknodImplem(s, pc[t].path))) :
           /\ InCore("mknod", pc[t].path, <<>>, <<>>, 0, 0, o)
           /\ live' = IF ~o.st.fault /\ o.ret = 0 THEN live \cup {pc[t].path} ELSE live
    /\ pc' = IF fault' THEN [u \in Threads |-> Ended] ELSE [pc EXCEPT ![t].at = "unlock"]
    /\ UNCHANGED env_lock

\* The thread's call of __myfs_unlink_implem.
HostUnlink(t) ==
    /\ pc[t].at = "core" /\ pc[t].op = "unlink"
    /\ \E o \in Settle(Bound(LAMBDA s : UnlinkImplem(s, pc[t].path))) :
           /\ InCore("unlink", pc[t].path, <<>>, <<>>, 0, 0, o)
           /\ live' = IF ~o.st.fault /\ o.ret = 0 THEN live \ {pc[t].path} ELSE live
    /\ pc' = IF fault' THEN [u \in Threads |-> Ended] ELSE [pc EXCEPT ![t].at = "unlock"]
    /\ UNCHANGED env_lock

\* The thread's call of __myfs_sync_environment: without a backup file it
\* returns 0 and touches nothing.
HostFsync(t) ==
    /\ pc[t].at = "core" /\ pc[t].op = "fsync"
    /\ last' = [NoCall EXCEPT !.op = "fsync"]
    /\ pc' = [pc EXCEPT ![t].at = "unlock"]
    /\ UNCHANGED <<inodes, blocks, fault, live, handle, mount, env_lock>>

\* pthread_mutex_unlock.
HostUnlock(t) ==
    /\ pc[t].at = "unlock"
    /\ env_lock' = NoThread
    /\ pc' = [pc EXCEPT ![t].at = "ret"]
    /\ UNCHANGED <<inodes, blocks, fault, last, live, handle, mount>>

\* The handler returns res or -__myfs_errno.
HostReturn(t) ==
    /\ pc[t].at = "ret"
    /\ pc' = [pc EXCEPT ![t] = Idle]
    /\ UNCHANGED <<inodes, blocks, fault, last, live, handle, mount, env_lock>>

\* ------------------------------------------------------------ specifications
\* Files and their payloads.
DataPaths == {<<SLASH, 97>>}
DataBufs == {<<104, 105>>, <<120, 0, 121>>, Rep(98, DATAFIELD_SZ_B + 1)}
DataOffsets == {0, 1, 4}
DataSizes == {0, 1, 4}

NextData ==
    \/ Mknod(DataPaths)
    \/ Write(DataPaths, DataBufs, DataOffsets)
    \/ Read(DataPaths, DataSizes, DataOffsets)
    \/ Truncate(DataPaths, DataOffsets)

SpecData == Init /\ [][NextData]_vars

\* Names: the files a and ab, of which one is a part of the other, and
\* the directory d.
NameFiles == {<<SLASH, 97>>, <<SLASH, 97, 98>>}
NameDirs == {<<SLASH, 100>>}

NextNames ==
    \/ Mknod(NameFiles)
    \/ Mkdir(NameDirs)
    \/ Unlink(NameFiles)
    \/ Rmdir(NameDirs)
    \/ Rename(NameFiles)
    \/ Open(NameFiles \cup NameDirs)

SpecNames == Init /\ [][NextNames]_vars

\* Removal of directories: the directory d, the file a beside it and the
\* file a inside it.
ROOT == <<SLASH>>
TreeDirs == {<<SLASH, 100>>}
TreeFiles == {<<SLASH, 97>>, <<SLASH, 100, SLASH, 97>>}
TreeBufs == {<<104, 105>>}

NextRmdir ==
    \/ Mkdir(TreeDirs)
    \/ Mknod(TreeFiles)
    \/ Write({<<SLASH, 97>>}, TreeBufs, {0})
    \/ Rmdir({ROOT} \cup TreeDirs \cup TreeFiles)

SpecRmdir == Init /\ [][NextRmdir]_vars

\* Renames of files: the file a, with or without a payload, and the name b.
MoveFiles == {<<SLASH, 97>>}
MoveNames == MoveFiles \cup {<<SLASH, 98>>}

NextMoveFile ==
    \/ Mknod(MoveFiles)
    \/ Write(MoveFiles, TreeBufs, {0})
    \/ Rename(MoveNames)

SpecMoveFile == Init /\ [][NextMoveFile]_vars

\* Renames of directories: the directories d and e, the file a inside d
\* and the file a beside them.
MoveDirs == {<<SLASH, 100>>, <<SLASH, 101>>}

NextMoveDir ==
    \/ Mkdir(MoveDirs)
    \/ Mknod(TreeFiles)
    \/ Rename(MoveDirs \cup MoveFiles)

SpecMoveDir == Init /\ [][NextMoveDir]_vars

\* Lookups: the file a, which comes and goes, the name x that nothing has,
\* and the name a below it.
SeekFiles == {<<SLASH, 97>>}
SeekPaths == SeekFiles \cup {<<SLASH, 120>>, <<SLASH, 120, SLASH, 97>>}
SeekSizes == {0, 2}
SeekTimes == {<<5, 7, 6, 8>>}

NextSeek ==
    \/ Mknod(SeekFiles)
    \/ Getattr(SeekPaths)
    \/ Open(SeekPaths)
    \/ Readdir(SeekPaths)
    \/ Unlink(SeekPaths)
    \/ Rmdir(SeekPaths)
    \/ Read(SeekPaths, SeekSizes, {0})
    \/ Write(SeekPaths, TreeBufs, {0})
    \/ Truncate(SeekPaths, {0})
    \/ Utimens(SeekPaths, SeekTimes)

SpecSeek == Init /\ [][NextSeek]_vars

\* Paths with no separator in front: ab and a, and the path b that they
\* can be taken for.
BarePaths == {<<97, 98>>, <<97>>}

NextBare ==
    \/ Mknod(BarePaths)
    \/ Mkdir(BarePaths)
    \/ Getattr(BarePaths)
    \/ Open(BarePaths)
    \/ Readdir(BarePaths)
    \/ Unlink(BarePaths)
    \/ Rmdir(BarePaths)
    \/ Rename(BarePaths \cup {<<SLASH, 98>>})
    \/ Read(BarePaths, SeekSizes, {0})
    \/ Write(BarePaths, TreeBufs, {0})
    \/ Truncate(BarePaths, {0})
    \/ Utimens(BarePaths, SeekTimes)

SpecBare == Init /\ [][NextBare]_vars

\* Names at the limits: of NAME_MAXLEN - 1, NAME_MAXLEN and NAME_MAXLEN + 1
\* bytes, the empty name, and names with one byte that no name may hold.
LongPaths ==
    {<<SLASH>> \o Rep(98, NAME_MAXLEN - 1), <<SLASH>> \o Rep(99, NAME_MAXLEN),
     <<SLASH>> \o Rep(100, NAME_MAXLEN + 1), <<SLASH, SLASH>>,
     <<SLASH, 97, COLON, 98>>, <<SLASH, 97, 44, 98>>,
     <<SLASH, 97, 31>>, <<SLASH, 97, 123>>}

NextLong ==
    \/ Mknod(LongPaths)
    \/ Mkdir(LongPaths)

SpecLong == Init /\ [][NextLong]_vars

\* Listings: files whose names begin with a letter, a digit and a dot, and
\* the directory d.
ListFiles == {<<SLASH, 97>>, <<SLASH, 49>>, <<SLASH, 46, 104>>}
ListDirs == {<<SLASH, 100>>}

NextList ==
    \/ Mknod(ListFiles)
    \/ Mkdir(ListDirs)
    \/ Readdir({ROOT} \cup ListDirs \cup {<<SLASH, 97>>})

SpecList == Init /\ [][NextList]_vars

\* Binding: regions of zeros of the sizes around the two thresholds, each
\* mapped at one of two addresses; the calls are those whose work past the
\* preamble is the same for all sizes.
MYFS_MIN_SIZE == 2048
MapBases == {MapBase, MapBase + PAGE_SZ}
BindSizes ==
    {MYFS_MIN_SIZE, MIN_FS_SZ_B - 1, MIN_FS_SZ_B, MIN_FS_SZ_B + 1,
     ST_SZ_FSHANDLE + ST_SZ_INODE + 2 * MEMBLOCK_SZ_B - 1,
     ST_SZ_FSHANDLE + ST_SZ_INODE + 2 * MEMBLOCK_SZ_B, FsSize}

\* A region of size bytes as the host's mmap gives it: zeros.
RawRegion(size) ==
    LET n == SizingLoop(0, size - FS_START_OFFSET)
    IN  [ino |-> [i \in 0..(n - 1) |-> ZeroInode],
         blk |-> [k \in 0..(n * BLOCKS_TO_INODES) |-> ZeroBlock]]

InitBind ==
    /\ mount \in {[memory |-> b, size |-> z] : b \in MapBases, z \in BindSizes}
    /\ inodes = RawRegion(mount.size).ino
    /\ blocks = RawRegion(mount.size).blk
    /\ handle = ZeroHandle
    /\ fault = FALSE
    /\ last = NoCall
    /\ live = {}
    /\ env_lock = NoThread
    /\ pc = [t \in Threads |-> Idle]

\* The call op with outcome o has happened, on a region of any size.
CalledAnySize(op, path, to, size, o) ==
    /\ Running
    /\ inodes' = o.st.ino
    /\ blocks' = o.st.blk
    /\ fault' = o.st.fault
    /\ last' = [NoCall EXCEPT !.op = op, !.path = path, !.to = to, !.size = size,
                              !.ret = o.ret, !.err = o.err, !.out = o.out,
                              !.ub = o.ub, !.ino = o.ino]
    /\ handle' = IF Binds(op, path, to, size)
                 THEN fs_handle(handle, St, mount).handle ELSE handle
    /\ UNCHANGED <<live, mount, env_lock, pc>>

BindStatfs ==
    \E o \in Bound(LAMBDA s : StatfsImplem(s, HandleFor(mount.memory, mount.size))) :
        CalledAnySize("statfs", <<>>, <<>>, 0, o)
BindGetattr ==
    \E o \in Bound(LAMBDA s : GetattrImplem(s, ROOT)) :
        CalledAnySize("getattr", ROOT, <<>>, 0, o)
BindOpen ==
    \E o \in Bound(LAMBDA s : OpenImplem(s, ROOT)) :
        CalledAnySize("open", ROOT, <<>>, 0, o)
BindRead ==
    \E o \in ReadImplem(St, ROOT, 0, 0) : CalledAnySize("read", ROOT, <<>>, 0, o)
BindRename ==
    \E o \in RenameImplem(St, ROOT, ROOT) : CalledAnySize("rename", ROOT, ROOT, 0, o)

NextBind ==
    \/ BindStatfs
    \/ BindGetattr
    \/ BindOpen
    \/ BindRead
    \/ BindRename
    \/ Remap(MapBases)

SpecBind == InitBind /\ [][NextBind]_vars

\* Regions whose bytes are all 255 when the host hands them over: one of
\* the least size, one that ends with the header of its second block, one
\* of FsSize. The bytes of the last page past the region are zeros.
DirtySizes ==
    {MIN_FS_SZ_B, MIN_FS_SZ_B + 1,
     FS_START_OFFSET + 2 * ST_SZ_INODE + MEMBLOCK_SZ_B + ST_SZ_MEMHEAD,
     FS_START_OFFSET + 2 * ST_SZ_INODE + 2 * MEMBLOCK_SZ_B, FsSize}

DirtyBytes(n, addr, size) == Trim([j \in 1..n |-> IF addr + j - 1 < size THEN 255 ELSE 0])

DirtyRegion(size) ==
    LET n == SizingLoop(0, size - FS_START_OFFSET)
        seg == FS_START_OFFSET + ST_SZ_INODE * n
    IN  [ino |-> [i \in 0..(n - 1) |->
                     [name |-> Rep(255, NAME_MAXLEN), is_dir |-> 255, subdirs |-> 255,
                      file_size_b |-> 255, last_acc |-> "dangling",
                      last_mod |-> "dangling", offset_firstblk |-> 255]],
         blk |-> [k \in 0..(n * BLOCKS_TO_INODES) |->
                     LET off == seg + MEMBLOCK_SZ_B * k
                     IN  [hdr |-> [j \in 1..ST_SZ_MEMHEAD |->
                                      IF off + j - 1 < size THEN 255 ELSE 0],
                          gap |-> DirtyBytes(DataFieldOff - ST_SZ_MEMHEAD,
                                             off + ST_SZ_MEMHEAD, size),
                          body |-> DirtyBytes(BodySz, off + DataFieldOff, size)]]]

InitDirty ==
    /\ mount \in {[memory |-> b, size |-> z] : b \in MapBases, z \in DirtySizes}
    /\ inodes = DirtyRegion(mount.size).ino
    /\ blocks = DirtyRegion(mount.size).blk
    /\ handle = [ZeroHandle EXCEPT !.magic = Rep(255, 4)]
    /\ fault = FALSE
    /\ last = NoCall
    /\ live = {}
    /\ env_lock = NoThread
    /\ pc = [t \in Threads |-> Idle]

SpecDirty == InitDirty /\ [][NextBind]_vars

\* Calls that name a directory where a file is expected: write, truncate
\* and rename on the root, beside the file a.
RootPaths == {ROOT} \cup MoveFiles

NextRoot ==
    \/ Mknod(MoveFiles)
    \/ Write(RootPaths, TreeBufs, {0})
    \/ Truncate({ROOT}, SeekSizes)
    \/ Rename(RootPaths)

SpecRoot == Init /\ [][NextRoot]_vars

\* A file written with payloads of two bytes, of the part of a data field
\* that lies in its block, of a full data field and of one byte more, and
\* cut to nothing.
FillPaths == {<<SLASH, 97>>}
FillBufs ==
    {<<104, 105>>, Rep(98, BodySz), Rep(98, DATAFIELD_SZ_B), Rep(98, DATAFIELD_SZ_B + 1)}

NextFill ==
    \/ Mknod(FillPaths)
    \/ Write(FillPaths, FillBufs, {0})
    \/ Truncate(FillPaths, {0})

SpecFill == Init /\ [][NextFill]_vars

\* Two files side by side, one of them written with a payload that fills
\* a data field.
FramePaths == {<<SLASH, 97>>, <<SLASH, 98>>}
FrameBufs == {<<104, 105>>, Rep(98, DATAFIELD_SZ_B)}

NextFrame ==
    \/ Mknod(FramePaths)
    \/ Write(FramePaths, FrameBufs, {0})

SpecFrame == Init /\ [][NextFrame]_vars

\* A regular file a and the path a/a below it; the file is written with
\* text that ends in a zero byte and with text that reads as a table line
\* naming itself.
UnderPaths == {<<SLASH, 97>>, <<SLASH, 97, SLASH, 97>>}
UnderBufs == {<<104, 105, 0>>, <<97, COLON>> \o DecStr(InodeOff(1)) \o <<NEWLINE>>}

NextUnder ==
    \/ Mknod(UnderPaths)
    \/ Mkdir({<<SLASH, 97, SLASH, 97>>})
    \/ Write({<<SLASH, 97>>}, UnderBufs, {0})
    \/ Getattr(UnderPaths)

SpecUnder == Init /\ [][NextUnder]_vars

\* A directory d that holds a directory e, renamed to f and back.
CountDirs == {<<SLASH, 100>>, <<SLASH, 100, SLASH, 101>>}
CountNames == {<<SLASH, 100>>, <<SLASH, 102>>}

NextCount ==
    \/ Mkdir(CountDirs)
    \/ Rmdir({<<SLASH, 100, SLASH, 101>>})
    \/ Rename(CountNames)
    \/ Getattr({ROOT} \cup CountNames)

SpecCount == Init /\ [][NextCount]_vars

\* Directories made and removed in a region of five inodes: x and d in the
\* root, e and f in d.
OwnDirs ==
    {<<SLASH, 120>>, <<SLASH, 100>>, <<SLASH, 100, SLASH, 101>>, <<SLASH, 100, SLASH, 102>>}

InitOwn ==
    /\ mount = [memory |-> MapBase, size |-> OwnSize]
    /\ handle = HandleFor(MapBase, OwnSize)
    /\ inodes = FormatRegion(OwnSize).ino
    /\ blocks = FormatRegion(OwnSize).blk
    /\ fault = FALSE
    /\ last = NoCall
    /\ live = {}
    /\ env_lock = NoThread
    /\ pc = [t \in Threads |-> Idle]

NextOwn ==
    \/ Mkdir(OwnDirs)
    \/ Rmdir({<<SLASH, 120>>})

SpecOwn == InitOwn /\ [][NextOwn]_vars

\* Two threads of the host in the handlers of mknod, unlink and fsync on
\* the file a; the other handlers of myfs.c have the lines of __myfs_unlink
\* around their call of the core, and __myfs_open those of __myfs_mknod
\* before it. A thread that is in a handler goes on running: the core's
\* function returns or ends the process, so no thread stays in it for
\* ever. A thread in pthread_mutex_lock gets the mutex if it is free again
\* and again.
NextHost ==
    \E t \in Threads :
        \/ HostCall(t, MoveFiles)
        \/ HostLock(t)
        \/ HostMknod(t)
        \/ HostUnlink(t)
        \/ HostFsync(t)
        \/ HostUnlock(t)
        \/ HostReturn(t)

SpecHost ==
    /\ Init
    /\ [][NextHost]_vars
    /\ \A t \in Threads :
           /\ SF_vars(HostLock(t))
           /\ []<>(pc[t].at # "core")
           /\ WF_vars(HostUnlock(t))
           /\ WF_vars(HostReturn(t))

\* Mounting again: the file a and the directory d in a region that the
\* host maps at one address, then at another.
NextRemap ==
    \/ Mknod(MoveFiles)
    \/ Mkdir(TreeDirs)
    \/ Write(MoveFiles, TreeBufs, {0})
    \/ Statfs
    \/ Remap(MapBases)

SpecRemap == Init /\ [][NextRemap]_vars

\* All calls, on all the paths above.
AllPaths ==
    DataPaths \cup NameFiles \cup NameDirs \cup TreeDirs \cup TreeFiles
    \cup MoveDirs \cup MoveNames \cup SeekPaths
    \cup BarePaths \cup LongPaths \cup ListFiles \cup ListDirs
Next ==
    \/ Mknod(AllPaths)
    \/ Mkdir(AllPaths)
    \/ Unlink(AllPaths)
    \/ Rmdir(AllPaths)
    \/ Rename(AllPaths)
    \/ Open(AllPaths)
    \/ Read(AllPaths, DataSizes, DataOffsets)
    \/ Write(AllPaths, DataBufs, DataOffsets)
    \/ Truncate(AllPaths, DataOffsets)
    \/ Getattr(AllPaths)
    \/ Readdir(AllPaths)
    \/ Utimens(AllPaths, SeekTimes)
    \/ Statfs
    \/ Remap(MapBases)

Spec == Init /\ [][Next]_vars

\* ------------------------------------------------------------ properties
\* The last call returned, and what it did followed from bytes the code
\* had written (where it read others, they were zeros).
Returned(op) == last.op = op /\ ~fault /\ ~last.ub

\* The sum of the data_size_b fields along inode i's chain.
RECURSIVE ChainUsedFrom(_, _, _)
ChainUsedFrom(st, k, fuel) ==
    IF k = WILD \/ fuel = 0 THEN 0
    ELSE HdrDataSize(st.blk[k]) +
         (IF HdrNext(st.blk[k]) = 0 THEN 0
          ELSE ChainUsedFrom(st, BlkIdx(HdrNext(st.blk[k])), fuel - 1))
ChainUsed(st, i) == ChainUsedFrom(st, BlkIdx(st.ino[i].offset_firstblk), NumBlocks)

\* The names in a directory table, line by line.
RECURSIVE TableNames(_)
TableNames(d) ==
    LET e == FindSub(d, <<NEWLINE>>, 1)
        line == SubSeq(d, 1, e - 1)
        c == FindSub(line, <<COLON>>, 1)
    IN  IF e = 0 THEN <<>>
        ELSE <<IF c = 0 THEN line ELSE SubSeq(line, 1, c - 1)>>
             \o TableNames(SubSeq(d, e + 1, Len(d)))

NoTwice(names) ==
    \A x \in 1..Len(names) : \A y \in 1..Len(names) : names[x] = names[y] => x = y

\* C1: bytes written to a file at offset 0 are the bytes a read of as many
\* bytes at offset 0 gives back, whatever bytes they are, zero bytes
\* included; the write returns their count.
C1_WriteReadRoundTrip ==
    (Returned("write") /\ last.kind = "file" /\ last.size > 0 /\ last.offset = 0)
    => /\ last.ret = last.size
       /\ \A o \in ReadImplem(St, last.path, last.size, 0) :
              (~o.st.fault /\ ~o.ub) => (o.ret = last.size /\ o.out = last.buf)

\* C2: a read of size bytes at an offset not past the end of a file gives
\* the payload from offset up to offset + size or the end, whichever is
\* first, and returns the count of those bytes: never more than size, and
\* 0 at the end.
C2_ReadCopiesSlice ==
    (Returned("read") /\ last.kind = "file" /\ last.size > 0
        /\ last.offset <= Len(last.pre))
    => /\ last.ret = Min(last.size, Len(last.pre) - last.offset)
       /\ last.out = SubSeq(last.pre, last.offset + 1, last.offset + last.ret)

\* C3: a read or a write at an offset past the end of a file returns -1
\* with EFBIG and leaves the payload as it was.
C3_OffsetPastEnd ==
    ((Returned("read") \/ Returned("write")) /\ last.kind = "file" /\ last.size > 0
        /\ last.offset > Len(last.pre))
    => /\ last.ret = 0 - 1
       /\ last.err = "EFBIG"
       /\ Payload(St, last.ino) = last.pre

\* C4: a write of size bytes at an offset above 0 and not past the end of
\* a file returns size and leaves the payload's first offset bytes
\* followed by the bytes written, whatever the payload held.
C4_WriteAtOffset ==
    (Returned("write") /\ last.kind = "file" /\ last.size > 0
        /\ last.offset > 0 /\ last.offset <= Len(last.pre))
    => /\ last.ret = last.size
       /\ Payload(St, last.ino) = SubSeq(last.pre, 1, last.offset) \o last.buf

\* C5: truncate to a length n above a file's size s returns 0 and leaves a
\* file of size n: the old payload followed by n - s zero bytes.
C5_TruncateGrows ==
    (Returned("truncate") /\ last.kind = "file" /\ last.offset > Len(last.pre))
    => /\ last.ret = 0
       /\ inodes[last.ino].file_size_b = last.offset
       /\ Payload(St, last.ino) = last.pre \o Zeros(last.offset - Len(last.pre))

\* C6: truncate to a length n not above a file's size returns 0 and leaves
\* the first n bytes of the payload, size n, and a chain whose used counts
\* add up to n.
C6_TruncateShrinks ==
    (last.op = "truncate" /\ ~fault /\ last.kind = "file" /\ last.offset <= Len(last.pre))
    => /\ last.ret = 0
       /\ Payload(St, last.ino) = SubSeq(last.pre, 1, last.offset)
       /\ inodes[last.ino].file_size_b = last.offset
       /\ ChainUsed(St, last.ino) = last.offset

\* A truncate that cut a file's payload short has returned.
C6_Witness ==
    /\ Returned("truncate") /\ last.kind = "file"
    /\ last.offset > 0 /\ last.offset < Len(last.pre)
    /\ last.ret = 0
    /\ Payload(St, last.ino) = SubSeq(last.pre, 1, last.offset)

\* C7: a path that mknod or mkdir made resolves (open returns 0) as long as
\* no call removed or renamed it, whatever its siblings are called.
C7_CreatedPathResolves ==
    (Returned("open") /\ last.path \in live) => last.ret = 0

\* C8: mknod or mkdir on a path that exists returns -1 with EEXIST and adds
\* no line to any directory table.
C8_ExistingNameRefused ==
    ((Returned("mknod") \/ Returned("mkdir")) /\ last.had)
    => /\ last.ret = 0 - 1
       /\ last.err = "EEXIST"
       /\ Entries(St) = last.entries

\* C9: no directory table holds two lines with the same name.
C9_NoDuplicateNames ==
    (~last.ub)
    => \A i \in 0..(NumInodes - 1) :
           inodes[i].is_dir # 0 => NoTwice(TableNames(Payload(St, i)))

\* C10: after unlink returned 0 the path resolves no more (unlink again
\* gives -1 with ENOENT), the inode is free, with first-block offset 0, and
\* there is one more free inode than before.
C10_UnlinkFrees ==
    (Returned("unlink") /\ last.ret = 0)
    => /\ \A o \in UnlinkImplem(St, last.path) :
              (~o.st.fault /\ ~o.ub) => (o.ret = 0 - 1 /\ o.err = "ENOENT")
       /\ inode_isfree(inodes[last.ino])
       /\ inodes_numfree(St) = last.nfree + 1

\* The paths made and not removed that lie below p.
Children(p) == {q \in live : q # p /\ Under(p, q)}

\* No lookup of path in the region st ends in an inode.
Unresolved(st, path) ==
    \A o \in fs_pathresolve(st, path, "none") :
        (~o.fault /\ ~o.ub) => (o.res = NULLP /\ o.err = "ENOENT")

C12_RmdirOnFile ==
    (Returned("rmdir") /\ last.kind = "file")
    => /\ last.ret = 0 - 1
       /\ last.err = "EINVAL"
       /\ \A o \in OpenImplem(St, last.path) : (~o.st.fault /\ ~o.ub) => o.ret = 0
       /\ Payload(St, last.ino) = last.pre

\* C13: rmdir of the root returns -1 whether the root is empty or not, with
\* no invalid memory access, and the root stays an inode in use, a
\* directory, with the table it had.
C13_RmdirRoot ==
    (last.op = "rmdir" /\ last.path = ROOT /\ ~last.ub)
    => /\ ~fault
       /\ last.ret = 0 - 1
       /\ ~inode_isfree(inodes[fs_rootnode_get])
       /\ inode_isdir(inodes[fs_rootnode_get])
       /\ Payload(St, fs_rootnode_get) = last.pre

\* Some lookup of path in the region st ends in an inode.
Resolves(st, path) ==
    \E o \in fs_pathresolve(st, path, "none") : ~o.fault /\ ~o.ub /\ o.res # NULLP

\* C14: rename of a regular file to a path that does not exist, in a
\* directory that does, returns 0; the new path resolves to a regular file
\* with the payload and size the old one had, and the old path resolves
\* no more.
C14_RenameFile ==
    [][(last'.op = "rename" /\ ~last'.ub /\ last'.kind = "file"
           /\ last'.to # last'.path
           /\ Unresolved(St, last'.to)
           /\ Resolves(St, SplitPath(last'.to).par))
       => /\ ~fault'
          /\ last'.ret = 0
          /\ Resolves(St', last'.to)
          /\ \A o \in fs_pathresolve(St', last'.to, "none") :
                 (~o.fault /\ ~o.ub)
                 => /\ o.res # NULLP
                    /\ ~inode_isdir(inodes'[o.res])
                    /\ Payload(St', o.res) = last'.pre
                    /\ inodes'[o.res].file_size_b = Len(last'.pre)
          /\ Unresolved(St', last'.path)]_vars

\* C15: rename of a path to itself returns 0, whatever the path, and no
\* byte of the region changes.
C15_RenameSame ==
    [][(last'.op = "rename" /\ last'.to = last'.path)
       => /\ ~fault'
          /\ ~last'.ub
          /\ last'.ret = 0
          /\ inodes' = inodes
          /\ blocks' = blocks]_vars

\* A file was renamed to itself, and it is still there.
C15_Witness ==
    /\ Returned("rename") /\ last.to = last.path /\ last.had
    /\ last.ret = 0
    /\ Resolves(St, last.path)

\* C16: rename of a directory to a path that does not exist or is an empty
\* directory, in a directory that exists, returns 0; what resolved below
\* the old path resolves below the new one to the same inode with the same
\* payload, and the old path resolves no more.
C16_RenameDir ==
    [][(last'.op = "rename" /\ ~last'.ub /\ last'.kind = "dir"
           /\ last'.to # last'.path
           /\ Resolves(St, SplitPath(last'.to).par)
           /\ \A t \in fs_pathresolve(St, last'.to, "none") :
                  (~t.fault /\ ~t.ub /\ t.res # NULLP)
                  => (inode_isdir(inodes[t.res]) /\ Payload(St, t.res) = <<>>))
       => /\ ~fault'
          /\ last'.ret = 0
          /\ \A name \in {<<97>>} :
                 \A c \in fs_pathresolve(St, last'.path \o <<SLASH>> \o name, "none") :
                     (~c.fault /\ ~c.ub /\ c.res # NULLP)
                     => /\ Resolves(St', last'.to \o <<SLASH>> \o name)
                        /\ \A d \in fs_pathresolve(St', last'.to \o <<SLASH>> \o name,
                                                    "none") :
                               (~d.fault /\ ~d.ub)
                               => /\ d.res = c.res
                                  /\ Payload(St', d.res) = Payload(St, c.res)
          /\ Unresolved(St', last'.path)]_vars

\* C17: rename of a directory to a path that is a regular file or a
\* directory that holds something returns -1 with EINVAL; both keep their
\* names, kinds, payloads and entries, as nothing in the region changes.
C17_RenameDirRefused ==
    [][(last'.op = "rename" /\ ~last'.ub /\ last'.kind = "dir"
           /\ last'.to # last'.path
           /\ \E t \in fs_pathresolve(St, last'.to, "none") :
                  /\ ~t.fault /\ ~t.ub /\ t.res # NULLP
                  /\ (~inode_isdir(inodes[t.res]) \/ Payload(St, t.res) # <<>>))
       => /\ ~fault'
          /\ last'.ret = 0 - 1
          /\ last'.err = "EINVAL"
          /\ inodes' = inodes
          /\ blocks' = blocks]_vars

\* A rename of a directory onto a directory that holds a file was refused.
C17_Witness ==
    /\ Returned("rename") /\ last.kind = "dir" /\ last.to # last.path
    /\ last.ret = 0 - 1 /\ last.err = "EINVAL"
    /\ Resolves(St, last.path)
    /\ Resolves(St, last.to \o <<SLASH, 97>>)

\* The calls that look a path up and make nothing.
SeekOps ==
    {"getattr", "open", "readdir", "unlink", "rmdir", "read", "write", "truncate",
     "utimens"}

\* C18: on a path of which some part, the last or one before it, is not in
\* its parent directory, each of these calls returns -1 with ENOENT, with
\* no invalid memory access, and nothing in the region changes.
C18_MissingPath ==
    [][(last'.op \in SeekOps /\ ~last'.ub /\ ~last'.had)
       => /\ ~fault'
          /\ last'.ret = 0 - 1
          /\ last'.err = "ENOENT"
          /\ inodes' = inodes
          /\ blocks' = blocks]_vars

\* The first byte of path is not the separator.
Bare(path) == Len(path) > 0 /\ path[1] # SLASH

\* C19: a call with a path that does not begin with the separator returns
\* -1 with EINVAL and makes or changes nothing.  (Stated for the calls
\* that reach a lookup: a read or write of no bytes and a rename of a path
\* to itself are left out.)
C19_BarePath ==
    [][(last'.op # "none" /\ ~last'.ub
           /\ (Bare(last'.path) \/ (last'.op = "rename" /\ Bare(last'.to)))
           /\ ~(last'.op \in {"read", "write"} /\ last'.size = 0)
           /\ ~(last'.op = "rename" /\ last'.to = last'.path))
       => /\ ~fault'
          /\ last'.ret = 0 - 1
          /\ last'.err = "EINVAL"
          /\ inodes' = inodes
          /\ blocks' = blocks]_vars

\* C20: a call that returns 0 or more leaves *errnoptr as it was before the
\* call.
C20_ErrnoKept ==
    (last.op # "none" /\ ~fault /\ ~last.ub /\ last.ret >= 0) => last.err = "none"

\* C21: a call that reaches the preamble on a region smaller than the
\* handle, one inode and two whole blocks returns -1 with EFAULT and writes
\* nothing into the region; no such region is formatted.
C21_SmallRegion ==
    (last.op \notin {"none", "remap"}
        /\ Binds(last.op, last.path, last.to, last.size)
        /\ mount.size < ST_SZ_FSHANDLE + ST_SZ_INODE + 2 * MEMBLOCK_SZ_B)
    => /\ last.ret = 0 - 1
       /\ last.err = "EFAULT"
       /\ handle = ZeroHandle
       /\ inodes = RawRegion(mount.size).ino
       /\ blocks = RawRegion(mount.size).blk

\* The name is one the specification accepts: 1 to NAME_MAXLEN - 1 bytes,
\* none of them '/', ':', ',', below 32 or above 122.
LegalName(name) ==
    /\ Len(name) >= 1
    /\ Len(name) <= NAME_MAXLEN - 1
    /\ \A j \in 1..Len(name) :
           name[j] \notin {SLASH, COLON, 44} /\ name[j] >= 32 /\ name[j] <= 122

\* C22: mknod and mkdir take a last name of NAME_MAXLEN - 1 bytes, and an
\* inode so named has only its name set by the name; they refuse, with
\* EINVAL and nothing made, a last name of NAME_MAXLEN bytes or more, an
\* empty one, and one holding '/', ':', ',' or a byte below 32 or above 122.
C22_NameLimits ==
    ((Returned("mknod") \/ Returned("mkdir")) /\ last.path \in LongPaths)
    => IF LegalName(SplitPath(last.path).name)
       THEN (~last.had /\ last.nfree > 0)
            => /\ last.ret = 0
               /\ inodes[last.ino].name = SplitPath(last.path).name
               /\ inodes[last.ino].is_dir = (IF last.op = "mkdir" THEN 1 ELSE 0)
               /\ inodes[last.ino].subdirs = 0
               /\ inodes[last.ino].file_size_b = 0
               /\ InodeName(inodes[last.ino]) = SplitPath(last.path).name
       ELSE /\ last.ret = 0 - 1
            /\ last.err = "EINVAL"
            /\ Entries(St) = last.entries
            /\ inodes_numfree(St) = last.nfree

\* C23: after utimens(p, [a, m]) returned 0, getattr(p) reports the access
\* time a and the modification time m.
C23_UtimensStored ==
    (last.op = "utimens" /\ ~fault /\ last.ret = 0)
    => \A o \in GetattrImplem(St, last.path) :
           (~o.st.fault /\ ~o.ub)
           => /\ o.ret = 0
              /\ o.out[4] = <<last.buf[1], last.buf[2]>>
              /\ o.out[5] = <<last.buf[3], last.buf[4]>>

\* The elements of a sequence.
Range(f) == {f[x] : x \in 1..Len(f)}

\* C24: readdir of a directory returns the count of the lines of its table
\* and gives out the names of those lines, whatever bytes the names begin
\* with; readdir of a regular file returns -1 with ENOTDIR.
C24_ReaddirLists ==
    Returned("readdir")
    => /\ last.kind = "dir"
          => /\ last.ret = CountByte(last.pre, NEWLINE)
             /\ Len(last.out) = last.ret
             /\ Range(last.out) = Range(TableNames(last.pre))
       /\ last.kind = "file"
          => /\ last.ret = 0 - 1
             /\ last.err = "ENOTDIR"

\* C25: a call that binds a region which holds the magic number, and does
\* nothing else to it, leaves every byte of the region as it was: the
\* handle, the inodes and the blocks; the two segments start at the
\* offsets of format time, and every path made before resolves to the
\* payload it had.
C25_RebindKeepsBytes ==
    [][(last'.op = "statfs" /\ handle.magic = MAGIC_NUM /\ mount.size = FsSize)
       => /\ ~fault'
          /\ last'.ret = 0
          /\ handle' = handle
          /\ inodes' = inodes
          /\ blocks' = blocks
          /\ handle'.inode_seg - mount'.memory = FS_START_OFFSET
          /\ handle'.mem_seg - mount'.memory = MemSegOff
          /\ \A p \in live :
                 \A o \in fs_pathresolve(St', p, "none") :
                     (~o.fault /\ ~o.ub)
                     => /\ o.res # NULLP
                        /\ Payload(St', o.res) = Payload(St, o.res)]_vars

\* d is a directory table of the region st: lines "name:offset\n" with a
\* valid name and the offset of an inode.
RECURSIVE TableOk(_, _)
TableOk(st, d) ==
    IF Len(d) = 0 THEN TRUE
    ELSE LET e == FindSub(d, <<NEWLINE>>, 1)
             line == SubSeq(d, 1, e - 1)
             c == FindSub(line, <<COLON>>, 1)
             digs == SubSeq(line, c + 1, Len(line))
         IN  /\ e # 0
             /\ c > 1
             /\ inode_name_isvalid(SubSeq(line, 1, c - 1))
             /\ Len(digs) \in 1..9
             /\ \A j \in 1..Len(digs) : IsDigit(digs[j])
             /\ InodeIdx(DigitsVal(digs)) # WILD
             /\ TableOk(st, SubSeq(d, e + 1, Len(d)))

\* C26: after every call that returned success the root inode is in use
\* and a directory, and its payload is a directory table; write, truncate
\* and rename on "/" or on another directory are among the calls.
C26_RootStaysDirectory ==
    (last.op # "none" /\ ~fault /\ ~last.ub /\ last.ret >= 0)
    => /\ ~inode_isfree(inodes[fs_rootnode_get])
       /\ inode_isdir(inodes[fs_rootnode_get])
       /\ TableOk(St, Payload(St, fs_rootnode_get))

\* The lines of a directory table as [name, off]; off is 0 where the line
\* has no colon or no digits after it.
RECURSIVE TableLines(_)
TableLines(d) ==
    LET e == FindSub(d, <<NEWLINE>>, 1)
        line == SubSeq(d, 1, e - 1)
        c == FindSub(line, <<COLON>>, 1)
        digs == SubSeq(line, c + 1, Len(line))
    IN  IF e = 0 THEN <<>>
        ELSE <<[name |-> IF c = 0 THEN line ELSE SubSeq(line, 1, c - 1),
                off |-> IF c # 0 /\ Len(digs) \in 1..9
                           /\ \A j \in 1..Len(digs) : IsDigit(digs[j])
                        THEN DigitsVal(digs) ELSE 0]>>
             \o TableLines(SubSeq(d, e + 1, Len(d)))

\* The inodes the lines of directory i name.
LineInodes(st, i) ==
    {InodeIdx(TableLines(Payload(st, i))[x].off) :
        x \in 1..Len(TableLines(Payload(st, i)))} \ {WILD}

\* The directories reached from the root through table lines.
RECURSIVE ReachDirsFrom(_, _, _)
ReachDirsFrom(st, dirs, fuel) ==
    LET more == dirs \cup {j \in UNION {LineInodes(st, i) : i \in dirs} :
                              inode_isdir(st.ino[j])}
    IN  IF fuel = 0 \/ more = dirs THEN dirs ELSE ReachDirsFrom(st, more, fuel - 1)
ReachDirs(st) == ReachDirsFrom(st, {fs_rootnode_get}, NumInodes)

\* Every line of directory i names an inode in use that carries the line's
\* name and whose chain can be read to its end.
LinesOk(st, i) ==
    LET lines == TableLines(Payload(st, i))
    IN  \A x \in 1..Len(lines) :
            LET j == InodeIdx(lines[x].off)
            IN  /\ j # WILD
                /\ ~inode_isfree(st.ino[j])
                /\ InodeName(st.ino[j]) = lines[x].name
                /\ ~memblock_data_get(st, BlkIdx(st.ino[j].offset_firstblk),
                                      <<>>, PageEnd, NumBlocks, FALSE).fault

\* C27: after every call that returned success, each line of every
\* directory reachable from the root names an inode in use whose file name
\* is the line's name and whose payload can be read through its chain.
C27_LinesNameInodes ==
    (last.op # "none" /\ ~fault /\ ~last.ub /\ last.ret >= 0)
    => \A i \in ReachDirs(St) : LinesOk(St, i)

\* The threads that are inside the core.
InCoreNow == {t \in Threads : pc[t].at = "core"}

RECURSIVE ChainEnds(_, _, _)
ChainEnds(st, k, fuel) ==
    /\ k # WILD
    /\ fuel > 0
    /\ ~memblock_isfree(st.blk[k])
    /\ \/ HdrNext(st.blk[k]) = 0
       \/ ChainEnds(st, BlkIdx(HdrNext(st.blk[k])), fuel - 1)

\* C29: after every call that returned success, every inode in use has a
\* chain of blocks in use that ends at 0, and the data_size_b of its blocks
\* add up to its file_size_b.
C29_ChainsConsistent ==
    (last.op # "none" /\ ~fault /\ ~last.ub /\ last.ret >= 0)
    => \A i \in 0..(NumInodes - 1) :
           ~inode_isfree(inodes[i])
           => /\ ChainEnds(St, BlkIdx(inodes[i].offset_firstblk), NumBlocks)
              /\ ChainUsed(St, i) = inodes[i].file_size_b

\* The blocks on the chain that starts at block k.
RECURSIVE ChainBlocks(_, _, _)
ChainBlocks(st, k, fuel) ==
    IF k = WILD \/ fuel = 0 THEN {}
    ELSE {k} \cup (IF HdrNext(st.blk[k]) = 0 THEN {}
                   ELSE ChainBlocks(st, BlkIdx(HdrNext(st.blk[k])), fuel - 1))
BlocksOf(st, i) == ChainBlocks(st, BlkIdx(st.ino[i].offset_firstblk), NumBlocks)

\* The inodes reached from the root: the directories, and what their
\* lines name.
ReachInodes(st) ==
    ReachDirs(st) \cup UNION {LineInodes(st, i) : i \in ReachDirs(st)}

\* The inode the last call made, if it made one.
Made == IF last.op \in {"mknod", "mkdir"} /\ last.ino # NULLP THEN {last.ino} ELSE {}

\* C30: after every call that returned success, no block is the first
\* block or on the chain of two different inodes among those reached from
\* the root and the one the call made; the block mkdir takes for the new
\* directory is not given to the parent when the parent's table is written
\* again.
C30_BlocksOwnedOnce ==
    (last.op # "none" /\ ~fault /\ ~last.ub /\ last.ret >= 0)
    => \A i \in ReachInodes(St) \cup Made : \A j \in ReachInodes(St) \cup Made :
           i # j => BlocksOf(St, i) \cap BlocksOf(St, j) = {}

\* The blocks of the region whose not_free is clear.
FreeBlocks == {k \in 0..(NumBlocks - 1) : memblock_isfree(blocks[k])}

\* C31: the f_bfree that statfs reports is the number of blocks whose
\* in-use flag is clear, from the freshly formatted state on.
C31_FreeAccounting ==
    Returned("statfs") /\ last.ret = 0 => last.out[3] = Cardinality(FreeBlocks)

\* The number of blocks a payload of n bytes needs.
BlocksFor(n) ==
    IF n = 0 THEN 1 ELSE (n + DATAFIELD_SZ_B - 1) \div DATAFIELD_SZ_B

\* C32: a write that returned the number of bytes leaves the file with
\* max(1, ceil(n / DATAFIELD_SZ_B)) blocks for its n bytes, all of them in
\* use and on its chain, and leaves the header of every block that was
\* not and is not on the file's chain as it was.
C32_BlocksPerSize ==
    [][(last'.op = "write" /\ ~fault' /\ ~last'.ub /\ last'.ret > 0)
       => LET i == last'.ino
              now == [ino |-> inodes', blk |-> blocks', fault |-> FALSE, over |-> FALSE]
          IN  /\ Cardinality(BlocksOf(now, i)) = BlocksFor(inodes'[i].file_size_b)
              /\ \A k \in BlocksOf(now, i) : ~memblock_isfree(blocks'[k])
              /\ \A k \in 0..(NumBlocks - 1) :
                     k \notin BlocksOf(now, i) \cup BlocksOf(St, i)
                     => blocks'[k].hdr = blocks[k].hdr]_vars

\* C33: once a region whose first bytes were not the magic number has been
\* bound, inode 0 is the empty root on block 0, block 0 is in use with
\* data_size_b 0, every other inode is free and every other block has
\* not_free clear.
C33_FormatAnyContents ==
    handle.magic = MAGIC_NUM /\ ~fault /\ ~last.ub
    => /\ inode_isdir(inodes[0]) /\ inodes[0].subdirs = 0 /\ inodes[0].file_size_b = 0
       /\ inodes[0].offset_firstblk = MemSegOff
       /\ ~memblock_isfree(blocks[0]) /\ HdrDataSize(blocks[0]) = 0
       /\ \A i \in 1..(NumInodes - 1) : inode_isfree(inodes[i])
       /\ \A k \in 1..(NumBlocks - 1) : memblock_isfree(blocks[k])

\* C34: mknod, mkdir or rename that has to make a new name while no inode
\* is free returns -1 with EINVAL, makes no invalid memory access and
\* leaves the inodes and the blocks of the region as they were.
C34_ExhaustionRefused ==
    [][(last'.op \in {"mknod", "mkdir", "rename"} /\ ~last'.ub
           /\ inodes_numfree(St) = 0
           /\ (last'.op = "rename" => (last'.to # last'.path /\ Resolves(St, last'.path)))
           /\ LET new == IF last'.op = "rename" THEN last'.to ELSE last'.path
              IN  Unresolved(St, new) /\ Resolves(St, SplitPath(new).par))
       => /\ ~fault'
          /\ last'.ret = -1
          /\ last'.err = "EINVAL"
          /\ inodes' = inodes
          /\ blocks' = blocks]_vars

\* The path resolves in the region st, to a regular file with payload data.
HoldsFile(st, path, data) ==
    /\ Resolves(st, path)
    /\ \A o \in fs_pathresolve(st, path, "none") :
           (~o.fault /\ ~o.ub)
           => /\ o.res # NULLP
              /\ ~inode_isdir(st.ino[o.res])
              /\ Payload(st, o.res) = data

\* C35: rename of a regular file loses no data: it returns 0 and the
\* destination holds the payload the source had, or it returns -1 and the
\* source still holds it.
C35_RenameKeepsData ==
    [][(last'.op = "rename" /\ ~last'.ub /\ last'.kind = "file"
           /\ last'.to # last'.path)
       => /\ ~fault'
          /\ \/ last'.ret = 0 /\ HoldsFile(St', last'.to, last'.pre)
             \/ last'.ret = 0 - 1 /\ HoldsFile(St', last'.path, last'.pre)]_vars

\* C36: in every region that was accepted, the handle, the inodes and the
\* blocks that fs_init counted end inside the region: header size plus
\* num_inodes inodes plus num_memblocks blocks is at most the region size.
C36_LayoutFits ==
    handle.magic = MAGIC_NUM
    => ST_SZ_FSHANDLE + handle.num_inodes * ST_SZ_INODE
           + handle.num_memblocks * MEMBLOCK_SZ_B <= mount.size

\* The inodes that some lookup of path in the region st ends in.
InodesAt(st, path) ==
    {o.res : o \in {x \in fs_pathresolve(st, path, "none") :
                        ~x.fault /\ ~x.ub /\ x.res # NULLP}}

\* C37: write, truncate, mknod, mkdir, unlink and rmdir on a path leave the
\* payload and the size of every file and directory other than the path's
\* own and its parent's as they were.
C37_Frame ==
    [][(last'.op \in {"write", "truncate", "mknod", "mkdir", "unlink", "rmdir"}
           /\ ~fault' /\ ~last'.ub)
       => \A j \in ReachInodes(St) :
              j \notin InodesAt(St, last'.path)
                           \cup InodesAt(St, SplitPath(last'.path).par)
              => /\ Payload(St', j) = Payload(St, j)
                 /\ inodes'[j].file_size_b = inodes[j].file_size_b]_vars

\* C38: a call on a path whose parent resolves to a regular file does not
\* find or make anything below the file: getattr returns -1 with ENOENT,
\* mknod and mkdir return -1, and the file's payload stays as it was.
C38_FileNotDirectory ==
    [][(last'.op \in {"getattr", "mknod", "mkdir"} /\ ~last'.ub
           /\ InodesAt(St, SplitPath(last'.path).par) # {}
           /\ \A j \in InodesAt(St, SplitPath(last'.path).par) : ~inode_isdir(inodes[j]))
       => /\ ~fault'
          /\ last'.ret = 0 - 1
          /\ last'.op = "getattr" => last'.err = "ENOENT"
          /\ \A j \in InodesAt(St, SplitPath(last'.path).par) :
                 Payload(St', j) = Payload(St, j)]_vars

\* The number of directories that the lines of directory i's table name.
SubdirLines(st, i) == Cardinality({j \in LineInodes(st, i) : inode_isdir(st.ino[j])})

\* C39: after every call, each directory reached from the root has in
\* subdirs the number of directories its table names, also the source's
\* parent and the destination of a rename; getattr of a directory reports
\* that number plus 2 as the link count.
C39_SubdirsCounted ==
    (last.op # "none" /\ ~fault /\ ~last.ub)
    => /\ \A i \in ReachDirs(St) : inodes[i].subdirs = SubdirLines(St, i)
       /\ (last.op = "getattr" /\ last.ret = 0 /\ last.ino \in ReachDirs(St))
          => last.out[2] = SubdirLines(St, last.ino) + 2

====
